---- MODULE Spec2Model ----
(***************************************************************************)
(* A model of the ObjectListView package: the two list controls that       *)
(* partition model objects into groups (DataObjectListView over a          *)
(* wx.dataview.DataViewCtrl, GroupListView over a virtual wx.ListCtrl),    *)
(* the sort engine of ObjectListView._SortObjects / GroupListView          *)
(* .SortGroups, and the comparison functions of NormalListModel.           *)
(*                                                                         *)
(* One behaviour of Spec is the life of ONE control instance: Init picks   *)
(* the class that is instantiated (kind) and its constructor arguments.    *)
(* Event handlers that an application may bind (GroupCreationEvent,        *)
(* SortGroupsEvent, SortEvent, expanding/collapsing events) are not bound: *)
(* ProcessEvent then leaves the event untouched.                           *)
(***************************************************************************)
EXTENDS Integers, Sequences, FiniteSets, TLC

VARIABLES
  kind,            \* the class instantiated: "DataObjectListView" | "GroupListView" | "none"
  modelObjects,    \* self.modelObjects
  groups,          \* self.groups: a sequence of groups, or GroupsNone (GroupListView only)
  showGroups,      \* self.showGroups
  emptyGroups,     \* self.emptyGroups
  showEmptyGroups, \* self.showEmptyGroups
  showItemCounts,  \* self.showItemCounts
  filter,          \* self.filter: NoFilter or the set of objects the filter lets through
  useInitialLetter,\* ColumnDefn.useInitialLetterForGroupKey of the columns
  sortColumn,      \* the sort column: NoColumn, "name" or "age"
  sortAscending,   \* GroupListView.sortAscending / the view column's sort order
  dvTree,          \* DataViewCtrl: the groups (by key) in the view's tree
  dvExpanded,      \* DataViewCtrl: the groups (by key) the view shows expanded
  last,            \* the last call made on the control and what it started from
  sortIn,          \* _SortObjects: the list handed in
  sortOut,         \* _SortObjects: the list after the in-place sort
  sortArgs,        \* _SortObjects: sort column, secondary column, direction
  caseSensitive,   \* DataObjectListView.caseSensitive
  compareFunction, \* DataObjectListView.compareFunction
  groupCompareFunction, \* DataObjectListView.groupCompareFunction
  Compare,         \* NormalListModel.Compare: the Compare_* method bound to it
  cmpCall,         \* the last Compare(item1, item2, column, ascending) call
  cmpResult,       \* what that call returned
  modelEq,         \* the __eq__ of the model objects: "is" (object's default) or "age"
  navCall,         \* the last navigation call on NormalListModel and what it returned
  colorOverride_cell,          \* DataObjectListView.colorOverride_cell: (object, column) -> color
  colorOverride_column,        \* DataObjectListView.colorOverride_column: column -> color
  colorOverride_row,           \* DataObjectListView.colorOverride_row: object -> color
  colorOverride_function,      \* DataObjectListView.colorOverride_function
  colorOverride_groupFunction, \* DataObjectListView.colorOverride_groupFunction
  colorCatalogue,      \* NormalListModel.colorCatalogue: object -> color, cached by GetChildren
  sortCounter,         \* NormalListModel.sortCounter: NoCounter (None) or a number
  sort_colorCatalogue, \* NormalListModel.sort_colorCatalogue: object -> color
  modelCall,           \* the last GetAttr or Resort call on NormalListModel and what it did
  mungedObject,        \* the model object a ColumnDefn reads and writes
  valueGetter,         \* ColumnDefn.valueGetter
  valueSetter,         \* ColumnDefn.valueSetter
  mungeCall,           \* the last ColumnDefn.GetValue or SetValue call and what it did
  keyRaises,           \* the model objects whose group key cannot be computed or hashed
  rebuildCall,         \* the last AddObjects / RemoveObjects call and what it started from
  cellValues,          \* the values of the cells of the model objects
  undoHistory,         \* DataObjectListView.undoHistory
  redoHistory,         \* DataObjectListView.redoHistory
  undoCap,             \* DataObjectListView.undoCap
  paste_ignoreSort,    \* DataObjectListView._paste_ignoreSort
  lastUndoEvent,       \* the last of UndoFirstEvent / UndoEmptyEvent that was triggered
  lastRedoEvent,       \* the last of RedoFirstEvent / RedoEmptyEvent that was triggered
  historiesSet,        \* SetUndoHistory or SetRedoHistory has been called
  undoCall             \* the last edit, paste, Undo or Redo and what it did

ctlVars == <<kind, modelObjects, groups, showGroups, emptyGroups, showEmptyGroups,
             showItemCounts,
             filter, useInitialLetter, sortColumn, sortAscending, dvTree, dvExpanded,
             last>>
sortVars == <<sortIn, sortOut, sortArgs>>
cmpVars == <<caseSensitive, compareFunction, groupCompareFunction, Compare,
             cmpCall, cmpResult>>
navVars == <<modelEq, navCall>>
\* the variables of the parts added after the sort engine and the comparators
attrVars == <<colorOverride_cell, colorOverride_column, colorOverride_row,
              colorOverride_function, colorOverride_groupFunction, colorCatalogue,
              sortCounter, sort_colorCatalogue, modelCall>>
mungeVars == <<mungedObject, valueGetter, valueSetter, mungeCall>>
failVars == <<keyRaises, rebuildCall>>
undoVars == <<cellValues, undoHistory, redoHistory, undoCap, paste_ignoreSort,
              lastUndoEvent, lastRedoEvent, historiesSet, undoCall>>
extraVars == <<navVars, attrVars, mungeVars, failVars, undoVars>>
vars == <<ctlVars, sortVars, cmpVars, extraVars>>

-----------------------------------------------------------------------------
(* Bounds of the model *)

\* the longest object list a control of SpecData / SpecList ever holds
MaxObjects == 2
\* the longest object list handed to _BuildGroups in SpecBuild
MaxInput == 3
\* the longest list handed to one AddObjects / RemoveObjects call
MaxBatch == 1
\* the longest list handed to _SortObjects in SpecSort
MaxSortLen == 3

-----------------------------------------------------------------------------
(* Python values: str, int and None, with the operations the code uses *)

PyStr(s) == [t |-> "str", n |-> 0, s |-> s]
PyInt(n) == [t |-> "int", n |-> n, s |-> <<>>]
PyNone == [t |-> "none", n |-> 0, s |-> <<>>]

Uppers == <<"A","B","C","D","E","F","G","H","I","J","K","L","M",
            "N","O","P","Q","R","S","T","U","V","W","X","Y","Z">>
Lowers == <<"a","b","c","d","e","f","g","h","i","j","k","l","m",
            "n","o","p","q","r","s","t","u","v","w","x","y","z">>

IndexIn(c, seq) == CHOOSE i \in DOMAIN seq : seq[i] = c
IsUpperCh(c) == \E i \in DOMAIN Uppers : Uppers[i] = c
IsLowerCh(c) == \E i \in DOMAIN Lowers : Lowers[i] = c

\* ord(c) for the letters
Ord(c) == IF IsUpperCh(c) THEN 64 + IndexIn(c, Uppers) ELSE 96 + IndexIn(c, Lowers)
UpperCh(c) == IF IsLowerCh(c) THEN Uppers[IndexIn(c, Lowers)] ELSE c
LowerCh(c) == IF IsUpperCh(c) THEN Lowers[IndexIn(c, Uppers)] ELSE c

\* str.upper(), str.lower(), s[:1]
StrUpper(s) == [i \in DOMAIN s |-> UpperCh(s[i])]
StrLower(s) == [i \in DOMAIN s |-> LowerCh(s[i])]
FirstSlice(s) == IF s = <<>> THEN <<>> ELSE <<s[1]>>

\* s1 < s2 on str: code point order, a proper prefix is smaller
RECURSIVE StrLess(_, _)
StrLess(a, b) ==
  IF b = <<>> THEN FALSE
  ELSE IF a = <<>> THEN TRUE
  ELSE IF Ord(a[1]) # Ord(b[1]) THEN Ord(a[1]) < Ord(b[1])
  ELSE StrLess(Tail(a), Tail(b))

\* the text of a str
RECURSIVE Text(_)
Text(s) == IF s = <<>> THEN "" ELSE s[1] \o Text(Tail(s))

\* v1 < v2 for two values of one type (str with str, int with int, None never)
PyLess(v1, v2) ==
  IF v1.t = "str" /\ v2.t = "str" THEN StrLess(v1.s, v2.s)
  ELSE IF v1.t = "int" /\ v2.t = "int" THEN v1.n < v2.n
  ELSE FALSE

\* whether v1 < v2 is defined (else Python raises TypeError)
PyOrderable(v1, v2) == v1.t = v2.t /\ v1.t # "none"

\* bool(v)
Truthy(v) ==
  IF v.t = "str" THEN v.s # <<>> ELSE IF v.t = "int" THEN v.n # 0 ELSE FALSE

\* try: v.lower()  except AttributeError: v
TryLower(v) == IF v.t = "str" THEN PyStr(StrLower(v.s)) ELSE v

-----------------------------------------------------------------------------
(* The model objects of the application and the two columns *)

Apple == <<"A","p","p","l","e">>
Banana == <<"B","a","n","a","n","a">>
Apricot == <<"a","p","r","i","c","o","t">>

\* three application objects: attribute name (str) and age (int)
Objects == {"o1", "o2", "o3"}
NameOf(o) == CASE o = "o1" -> Banana [] o = "o2" -> Apple [] OTHER -> Apricot
AgeOf(o) == CASE o = "o1" -> 3 [] o = "o2" -> 3 [] OTHER -> 1

NoColumn == "nocolumn"
Columns == {"name", "age"}
\* the first column given by the user
PrimaryColumn == "name"

\* self.filter: None, or a callable, told by the set of objects it lets through
NoFilter == [callable |-> FALSE, pass |-> {}]
FilterOf(S) == [callable |-> TRUE, pass |-> S]
\* self.groups = None: a value that is no list of groups
GroupsNone == <<[none |-> TRUE]>>

\* ColumnDefn.GetValue: the valueGetter names the attribute
GetValue(col, o) == IF col = "name" THEN PyStr(NameOf(o)) ELSE PyInt(AgeOf(o))

\* ColumnDefn.GetGroupKey, no groupKeyGetter: key[:1].upper(), the key itself on TypeError
GetGroupKey(col, o, initial) ==
  LET key == GetValue(col, o)
  IN IF initial /\ key.t = "str" THEN PyStr(StrUpper(FirstSlice(key.s))) ELSE key

\* ColumnDefn._StringToValue with no converter: "" for a falsy value, else "%s" % value
StringToValue(v) ==
  IF ~Truthy(v) THEN ""
  ELSE IF v.t = "str" THEN Text(v.s) ELSE ToString(v.n)

\* ColumnDefn.GetGroupKeyAsString
GetGroupKeyAsString(key) == StringToValue(key)

groupTitleSingleItem(title, count) == title \o " (" \o ToString(count) \o " item)"
groupTitlePluralItems(title, count) == title \o " (" \o ToString(count) \o " items)"

\* a title that always takes the plural template
GetGroupTitlePlural(group, useItemCount) ==
  IF useItemCount
  THEN groupTitlePluralItems(GetGroupKeyAsString(group.key), Len(group.modelObjects))
  ELSE GetGroupKeyAsString(group.key)

\* ColumnDefn.GetGroupTitle
GetGroupTitle(group, useItemCount) ==
  LET title == GetGroupKeyAsString(group.key)
      objectCount == Len(group.modelObjects)
  IN IF useItemCount
     THEN IF objectCount = 1 THEN groupTitleSingleItem(title, objectCount)
          ELSE groupTitlePluralItems(title, objectCount)
     ELSE title

-----------------------------------------------------------------------------
(* Groups and the Grouping Engine *)

\* DataListGroup(olv, key, title) / ListGroup(key, title): no members yet.
\* empty tells a DataListEmptyGroup / ListEmptyGroup; isExpanded is the field of
\* ListGroup (a DataListGroup has none: its expansion is the view's).
NewGroup(key, title, empty) ==
  [key |-> key, title |-> title, modelObjects |-> <<>>, empty |-> empty,
   isExpanded |-> TRUE]

\* a group that puts a new member in front
GroupAddFront(group, model) ==
  [group EXCEPT !.modelObjects = <<model>> \o @]

\* DataListGroup.Add / ListGroup.Add
GroupAdd(group, model) ==
  [group EXCEPT !.modelObjects = Append(@, model)]

\* groupMap.get(key): the position of the group of that key, 0 for None
MapGet(groupMap, key) ==
  IF \E i \in DOMAIN groupMap : groupMap[i].key = key
  THEN CHOOSE i \in DOMAIN groupMap : groupMap[i].key = key
  ELSE 0

\* a partition loop that forgets group.Add(model) once the group exists
AddModelLost(groupMap, model, col, initial) ==
  LET key == GetGroupKey(col, model, initial)
  IN IF MapGet(groupMap, key) = 0
     THEN Append(groupMap, GroupAdd(NewGroup(key, GetGroupKeyAsString(key), FALSE), model))
     ELSE groupMap

\* one round of "for model in modelObjects": look the key up, create the group
\* on a miss (a dict keeps insertion order), add the model to it
AddModel(groupMap, model, col, initial) ==
  LET key == GetGroupKey(col, model, initial)
      i == MapGet(groupMap, key)
  IN IF i = 0
     THEN Append(groupMap, GroupAdd(NewGroup(key, GetGroupKeyAsString(key), FALSE), model))
     ELSE [groupMap EXCEPT ![i] = GroupAdd(@, model)]

RECURSIVE PartitionLoop(_, _, _, _)
PartitionLoop(groupMap, objs, col, initial) ==
  IF objs = <<>> THEN groupMap
  ELSE PartitionLoop(AddModel(groupMap, Head(objs), col, initial), Tail(objs), col, initial)

\* an empty-group loop that does not look the key up first
RECURSIVE EmptyGroupAlways(_, _)
EmptyGroupAlways(groupMap, keys) ==
  IF keys = <<>> THEN groupMap
  ELSE EmptyGroupAlways(
         Append(groupMap, NewGroup(Head(keys), GetGroupKeyAsString(Head(keys)), TRUE)),
         Tail(keys))

\* "for key in self.emptyGroups": an empty group for each key that got no group
RECURSIVE EmptyGroupLoop(_, _)
EmptyGroupLoop(groupMap, keys) ==
  IF keys = <<>> THEN groupMap
  ELSE EmptyGroupLoop(
         IF MapGet(groupMap, Head(keys)) = 0
         THEN Append(groupMap, NewGroup(Head(keys), GetGroupKeyAsString(Head(keys)), TRUE))
         ELSE groupMap,
         Tail(keys))

\* _BuildGroupTitles
BuildGroupTitles(grps, useItemCount) ==
  [i \in DOMAIN grps |-> [grps[i] EXCEPT !.title = GetGroupTitle(grps[i], useItemCount)]]

\* self.filter(modelObjects): the objects the filter lets through, in order
ApplyFilter(flt, objs) ==
  IF ~flt.callable THEN objs ELSE SelectSeq(objs, LAMBDA o : o \in flt.pass)

\* GetGroupByColumn: alwaysGroupByColumnIndex is left at -1, so the sort column,
\* or the primary column when there is none
GetGroupByColumn(sortCol) == IF sortCol = NoColumn THEN PrimaryColumn ELSE sortCol

\* DataObjectListView._BuildGroups. The expansion loop calls group.Expand(state) on
\* groups the view has never been shown, which changes nothing (see ViewExpand),
\* so the groups returned do not depend on it.
DataBuildGroups(objs, col, initial, emptyKeys, itemCounts) ==
  LET groupMap == EmptyGroupLoop(PartitionLoop(<<>>, objs, col, initial), emptyKeys)
  IN IF itemCounts THEN BuildGroupTitles(groupMap, TRUE) ELSE groupMap

\* GroupListView._BuildGroups: the filter is applied before partitioning
ListBuildGroups(objs, flt, col, initial, emptyKeys, itemCounts) ==
  LET groupMap == EmptyGroupLoop(
                    PartitionLoop(<<>>, ApplyFilter(flt, objs), col, initial), emptyKeys)
  IN IF itemCounts THEN BuildGroupTitles(groupMap, TRUE) ELSE groupMap

-----------------------------------------------------------------------------
(* The Sort Engine of ObjectListView.py *)

PyBool(b) == PyInt(IF b THEN 1 ELSE 0)

\* t1 < t2 on tuples: decided by the first position where the items differ
RECURSIVE TupleLess(_, _)
TupleLess(t1, t2) ==
  IF t1 = <<>> \/ t2 = <<>> THEN t1 = <<>> /\ t2 # <<>>
  ELSE IF t1[1] # t2[1] THEN PyLess(t1[1], t2[1])
  ELSE TupleLess(Tail(t1), Tail(t2))

\* _SortObjects._getSortValue: (primary is None, primary [, secondary]), str lower-cased
getSortValue(x, sortCol, secondaryCol) ==
  LET primary == TryLower(GetValue(sortCol, x))
  IN IF secondaryCol # NoColumn
     THEN <<PyBool(primary.t = "none"), primary, TryLower(GetValue(secondaryCol, x))>>
     ELSE <<PyBool(primary.t = "none"), primary>>

\* list.sort(key=..., reverse=...) is stable in both directions: an element goes
\* in front of the first one that must come strictly after it
InsertStable(sorted, x, Before(_, _)) ==
  LET later == {i \in DOMAIN sorted : Before(x, sorted[i])}
      at == IF later = {} THEN Len(sorted) + 1
            ELSE CHOOSE i \in later : \A j \in later : i <= j
  IN SubSeq(sorted, 1, at - 1) \o <<x>> \o SubSeq(sorted, at, Len(sorted))

StableSort(list, Before(_, _)) ==
  LET done[n \in 0..Len(list)] ==
        IF n = 0 THEN <<>> ELSE InsertStable(done[n - 1], list[n], Before)
  IN done[Len(list)]

\* a sort that lets a later element overtake the earlier ones it ties with
SortObjectsUnstable(objs, sortCol, secondaryCol, ascending) ==
  LET secondary == IF secondaryCol = sortCol THEN NoColumn ELSE secondaryCol
      Before(a, b) ==
        IF ascending
        THEN ~TupleLess(getSortValue(b, sortCol, secondary), getSortValue(a, sortCol, secondary))
        ELSE ~TupleLess(getSortValue(a, sortCol, secondary), getSortValue(b, sortCol, secondary))
  IN IF sortCol = NoColumn THEN objs ELSE StableSort(objs, Before)

\* ObjectListView._SortObjects(modelObjects, sortColumn, secondarySortColumn):
\* the list after the in-place sort; the direction is self.sortAscending
SortObjects(objs, sortCol, secondaryCol, ascending) ==
  LET secondary == IF secondaryCol = sortCol THEN NoColumn ELSE secondaryCol
      Before(a, b) ==
        IF ascending
        THEN TupleLess(getSortValue(a, sortCol, secondary), getSortValue(b, sortCol, secondary))
        ELSE TupleLess(getSortValue(b, sortCol, secondary), getSortValue(a, sortCol, secondary))
  IN IF sortCol = NoColumn THEN objs ELSE StableSort(objs, Before)

\* SortGroups._getLowerCaseKey
getLowerCaseKey(group) == TryLower(group.key)

\* sorted(groups, key=...) raises TypeError when two keys cannot be ordered
GroupsOrderable(grps) ==
  \A i, j \in DOMAIN grps :
     i # j => PyOrderable(getLowerCaseKey(grps[i]), getLowerCaseKey(grps[j]))

\* sorted(groups, key=_getLowerCaseKey, reverse=(not ascending))
SortedGroups(grps, ascending) ==
  LET Before(a, b) ==
        IF ascending THEN PyLess(getLowerCaseKey(a), getLowerCaseKey(b))
        ELSE PyLess(getLowerCaseKey(b), getLowerCaseKey(a))
  IN StableSort(grps, Before)

\* the members sorted by the sort column alone
SortMembersNoTie(grps, sortCol, sortAsc) ==
  [i \in DOMAIN grps |->
     [grps[i] EXCEPT !.modelObjects = SortObjects(@, sortCol, NoColumn, sortAsc)]]

\* "for x in groups: self._SortObjects(x.modelObjects, sortCol, self.GetPrimaryColumn())"
SortMembers(grps, sortCol, sortAsc) ==
  [i \in DOMAIN grps |->
     [grps[i] EXCEPT !.modelObjects = SortObjects(@, sortCol, PrimaryColumn, sortAsc)]]

\* GroupListView.SortGroups(groups) on Python 3: what self.groups becomes.
\* GetAlwaysGroupByColumn() is self.columns[-1], a column, so sortCol is the sort column.
SortGroupsSelf(grps, ascending, sortCol, sortAsc) ==
  SortMembers(SortedGroups(grps, ascending), sortCol, sortAsc)

\* GroupListView.SortGroups(groups): what the caller's list is afterwards. sorted()
\* makes a new list, so the caller's keeps its order; the groups in it are the
\* same objects, so their members are sorted
SortGroupsArg(grps, sortCol, sortAsc) == SortMembers(grps, sortCol, sortAsc)

-----------------------------------------------------------------------------
(* The wx.dataview.DataViewCtrl under a DataObjectListView.  The view keeps a *)
(* tree of the items the model gave it; model.Cleared() makes it drop the     *)
(* tree and read the root's children again, every container collapsed.       *)

DATA == "DataObjectListView"
LIST == "GroupListView"

\* NormalListModel.GetChildren(root) with groups shown: the groups handed to the view
RootGroupKeys(grps, flt, emptyKeys) ==
  {grps[i].key : i \in {j \in DOMAIN grps :
       ~(ApplyFilter(flt, grps[j].modelObjects) = <<>>
         /\ (~showEmptyGroups \/ ~(\E k \in DOMAIN emptyKeys : emptyKeys[k] = grps[j].key)))}}

\* model.Cleared(): the tree the view holds afterwards
ClearedTree(shGroups, grps, flt, emptyKeys) ==
  IF shGroups THEN RootGroupKeys(grps, flt, emptyKeys) ELSE {}

\* DataViewCtrl.IsExpanded(item)
ViewIsExpanded(tree, expanded, key, inTree) == inTree /\ key \in tree /\ key \in expanded

\* DataViewCtrl.Expand(item) / Collapse(item): nothing happens for an item that is
\* not in the view's tree ("super().Expand(item) does not expand the item")
ViewExpand(tree, expanded, key, inTree) ==
  IF inTree /\ key \in tree THEN expanded \cup {key} ELSE expanded
ViewCollapse(tree, expanded, key, inTree) ==
  IF inTree /\ key \in tree THEN expanded \ {key} ELSE expanded

\* DataObjectListView._DoExpandCollapse([group], isExpanding)
DoExpandCollapse(tree, expanded, key, inTree, isExpanding) ==
  IF ViewIsExpanded(tree, expanded, key, inTree) = isExpanding THEN expanded
  ELSE IF isExpanding THEN ViewExpand(tree, expanded, key, inTree)
  ELSE ViewCollapse(tree, expanded, key, inTree)

\* _BuildGroups, "if (preserveExpansion)": expanded[key] is read from the groups on
\* display, group.Expand(isExpanded) is called on the groups just created, which
\* the view has not been given yet (inTree = FALSE)
RECURSIVE PreserveExpansion(_, _, _, _)
PreserveExpansion(tree, expanded, oldKeys, newKeys) ==
  IF oldKeys = {} THEN expanded
  ELSE LET key == CHOOSE k \in oldKeys : TRUE
           isExpanded == ViewIsExpanded(tree, expanded, key, TRUE)
       IN PreserveExpansion(tree,
            IF key \in newKeys
            THEN DoExpandCollapse(tree, expanded, key, FALSE, isExpanded)
            ELSE expanded,
            oldKeys \ {key}, newKeys)

-----------------------------------------------------------------------------
(* What a call leaves behind for the properties to look at *)

KeysOf(grps) == IF grps = GroupsNone THEN {} ELSE {grps[i].key : i \in DOMAIN grps}

\* a call that built no groups
Plain == [built |-> FALSE, sorted |-> FALSE, raised |-> FALSE, preserve |-> FALSE,
          prevKeys |-> {}, prevExpanded |-> {}, restored |-> {}]
\* a call that raised an exception
Raised == [Plain EXCEPT !.raised = TRUE]
\* a call that built the groups; it sorted them, or preserved the expansion of the
\* groups it started from: restored is what the view showed expanded when
\* _BuildGroups returned
Built(sorted, preserve, restored) ==
  [built |-> TRUE, sorted |-> sorted, raised |-> FALSE, preserve |-> preserve,
   prevKeys |-> IF preserve THEN KeysOf(groups) ELSE {},
   prevExpanded |-> IF preserve THEN dvExpanded ELSE {},
   restored |-> IF preserve THEN restored ELSE {}]

Lists(n) == UNION {[1..m -> Objects] : m \in 0..n}
NonEmptyLists(n) == UNION {[1..m -> Objects] : m \in 1..n}

\* the values handed to SetEmptyGroups
EmptyGroupLists == {<<>>, <<PyStr(<<"A">>), PyStr(<<"Z">>)>>}
\* the filters handed to SetFilter
Filters == {NoFilter, FilterOf({"o1", "o2"})}

-----------------------------------------------------------------------------
(* DataObjectListView *)

\* RebuildGroups + _SetGroups: the groups after the call
DataRebuildGroups(objs) ==
  IF ~showGroups THEN groups
  ELSE DataBuildGroups(objs, GetGroupByColumn(sortColumn), useInitialLetter,
                       emptyGroups, showItemCounts)

\* what _BuildGroups leaves of the view's expansion, before model.Cleared()
DataRebuildExpanded(grps, preserveExpansion) ==
  IF showGroups /\ preserveExpansion
  THEN PreserveExpansion(dvTree, dvExpanded, KeysOf(groups), KeysOf(grps))
  ELSE dvExpanded

\* model.Cleared() at the end of a call
ViewCleared(shGroups, grps) ==
  /\ dvTree' = ClearedTree(shGroups, grps, filter, emptyGroups)
  /\ dvExpanded' = {}

\* AddObjects / RemoveObjects / SetObjects once self.modelObjects is objs
DataRebuild(objs, preserveExpansion, cleared) ==
  \E grps \in {DataRebuildGroups(objs)} :
    /\ modelObjects' = objs
    /\ groups' = grps
    /\ IF showGroups \/ cleared
       THEN ViewCleared(showGroups, grps)
       ELSE UNCHANGED <<dvTree, dvExpanded>>
    /\ last' = IF showGroups
               THEN Built(FALSE, preserveExpansion,
                          DataRebuildExpanded(grps, preserveExpansion))
               ELSE Plain
    /\ UNCHANGED <<kind, showEmptyGroups, showGroups, emptyGroups, showItemCounts, filter,
                   useInitialLetter, sortColumn, sortAscending>>

DOLV_AddObjects(objs, preserveExpansion) ==
  /\ kind = DATA
  /\ Len(modelObjects) + Len(objs) <= MaxObjects
  /\ DataRebuild(modelObjects \o objs, preserveExpansion, FALSE)

\* "if (item in self.modelObjects): self.modelObjects.remove(item)"
RECURSIVE RemoveEach(_, _)
RemoveEach(objs, items) ==
  IF items = <<>> THEN objs
  ELSE LET at == {i \in DOMAIN objs : objs[i] = Head(items)}
           first == CHOOSE i \in at : \A j \in at : i <= j
       IN RemoveEach(IF at = {} THEN objs
                     ELSE SubSeq(objs, 1, first - 1) \o SubSeq(objs, first + 1, Len(objs)),
                     Tail(items))

DOLV_RemoveObjects(objs, preserveExpansion) ==
  /\ kind = DATA
  /\ DataRebuild(RemoveEach(modelObjects, objs), preserveExpansion, FALSE)

DOLV_ClearAll ==
  /\ kind = DATA
  /\ modelObjects' = <<>>
  /\ ViewCleared(showGroups, groups)
  /\ last' = Plain
  /\ UNCHANGED <<kind, showEmptyGroups, groups, showGroups, emptyGroups, showItemCounts, filter,
                 useInitialLetter, sortColumn, sortAscending>>

\* SetObjects: ClearAll(), then AddObjects(modelObjects, preserveExpansion)
DOLV_SetObjects(objs, preserveExpansion) ==
  /\ kind = DATA
  /\ DataRebuild(objs, preserveExpansion, TRUE)

\* SetShowGroups: the columns are defined; nothing rebuilds the groups
DOLV_SetShowGroups(show) ==
  /\ kind = DATA
  /\ showGroups' = show
  /\ IF show = showGroups THEN UNCHANGED <<dvTree, dvExpanded>>
     ELSE ViewCleared(show, groups)
  /\ last' = Plain
  /\ UNCHANGED <<kind, showEmptyGroups, modelObjects, groups, emptyGroups, showItemCounts, filter,
                 useInitialLetter, sortColumn, sortAscending>>

DOLV_SetEmptyGroups(keys) ==
  /\ kind = DATA
  /\ emptyGroups' = keys
  /\ last' = Plain
  /\ UNCHANGED <<kind, showEmptyGroups, modelObjects, groups, showGroups, showItemCounts, filter,
                 useInitialLetter, sortColumn, sortAscending, dvTree, dvExpanded>>

DOLV_SetShowItemCounts(show) ==
  /\ kind = DATA
  /\ showItemCounts' = show
  /\ IF show = showItemCounts THEN UNCHANGED <<groups, dvTree, dvExpanded>>
     ELSE /\ groups' = BuildGroupTitles(groups, show)
          /\ ViewCleared(showGroups, groups')
  /\ last' = Plain
  /\ UNCHANGED <<kind, showEmptyGroups, modelObjects, showGroups, emptyGroups, filter,
                 useInitialLetter, sortColumn, sortAscending>>

\* DataObjectListView.Expand(group) / Collapse(group) for a group of self.groups
DOLV_ExpandCollapse(i, isExpanding) ==
  /\ kind = DATA
  /\ i \in DOMAIN groups
  /\ dvExpanded' = DoExpandCollapse(dvTree, dvExpanded, groups[i].key, TRUE, isExpanding)
  /\ last' = Plain
  /\ UNCHANGED <<kind, showEmptyGroups, modelObjects, groups, showGroups, emptyGroups, showItemCounts,
                 filter, useInitialLetter, sortColumn, sortAscending, dvTree>>

-----------------------------------------------------------------------------
(* GroupListView *)

\* GroupListView._BuildInnerList: what self.groups is afterwards, and whether
\* SortGroups raised TypeError on keys that cannot be ordered
ListBuildInnerList(objs, grps, sortCol, ascending) ==
  IF ~showGroups THEN [groups |-> grps, call |-> Plain]
  ELSE IF objs = <<>> THEN [groups |-> <<>>, call |-> Plain]
  ELSE IF grps = GroupsNone
  THEN LET built == ListBuildGroups(objs, filter, GetGroupByColumn(sortCol),
                                    useInitialLetter, emptyGroups, showItemCounts)
       IN IF GroupsOrderable(built)
          THEN [groups |-> SortGroupsSelf(built, ascending, sortCol, ascending),
                call |-> Built(TRUE, FALSE, {})]
          ELSE [groups |-> built, call |-> Raised]
  ELSE [groups |-> grps, call |-> Plain]

\* FastObjectListView.RepopulateList: _SortObjects(), then _BuildInnerList()
ListRepopulate(objs, grps) ==
  \E sorted \in {SortObjects(objs, sortColumn, NoColumn, sortAscending)} :
    \E inner \in {ListBuildInnerList(sorted, grps, sortColumn, sortAscending)} :
      /\ modelObjects' = sorted
      /\ groups' = inner.groups
      /\ last' = inner.call

\* GroupListView.SetObjects -> ObjectListView.SetObjects
LIST_SetObjects(objs) ==
  /\ kind = LIST
  /\ ListRepopulate(objs, IF showGroups THEN GroupsNone ELSE <<>>)
  /\ UNCHANGED <<kind, showEmptyGroups, showGroups, emptyGroups, showItemCounts, filter,
                 useInitialLetter, sortColumn, sortAscending, dvTree, dvExpanded>>

\* GroupListView.AddObjects -> FastObjectListView.AddObjects
LIST_AddObjects(objs) ==
  /\ kind = LIST
  /\ Len(modelObjects) + Len(objs) <= MaxObjects
  /\ ListRepopulate(modelObjects \o objs, GroupsNone)
  /\ UNCHANGED <<kind, showEmptyGroups, showGroups, emptyGroups, showItemCounts, filter,
                 useInitialLetter, sortColumn, sortAscending, dvTree, dvExpanded>>

\* the lists that hold each element of a set once
ListsOfSet(S) ==
  {l \in [1..Cardinality(S) -> S] : \A i, j \in DOMAIN l : i # j => l[i] # l[j]}

\* GroupListView.RemoveObjects -> ObjectListView.RemoveObjects:
\* list(set(self.modelObjects) - set(removedObjects)), in whatever order the set yields
LIST_RemoveObjects(objs) ==
  /\ kind = LIST
  /\ \E rest \in ListsOfSet({modelObjects[i] : i \in DOMAIN modelObjects}
                            \ {objs[i] : i \in DOMAIN objs}) :
        ListRepopulate(rest, GroupsNone)
  /\ UNCHANGED <<kind, showEmptyGroups, showGroups, emptyGroups, showItemCounts, filter,
                 useInitialLetter, sortColumn, sortAscending, dvTree, dvExpanded>>

\* GroupListView.SetShowGroups: SetObjects(self.modelObjects) when the flag changes
LIST_SetShowGroups(show) ==
  /\ kind = LIST
  /\ showGroups' = show
  /\ IF show = showGroups
     THEN /\ UNCHANGED <<modelObjects, groups>>
          /\ last' = Plain
     ELSE \E sorted \in {SortObjects(modelObjects, sortColumn, NoColumn, sortAscending)} :
          \E built \in {ListBuildGroups(sorted, filter, GetGroupByColumn(sortColumn),
                                        useInitialLetter, emptyGroups, showItemCounts)} :
             /\ modelObjects' = sorted
             /\ groups' = IF ~show \/ sorted = <<>> THEN <<>>
                          ELSE IF GroupsOrderable(built)
                          THEN SortGroupsSelf(built, sortAscending, sortColumn, sortAscending)
                          ELSE built
             /\ last' = IF ~show \/ sorted = <<>> THEN Plain
                        ELSE IF GroupsOrderable(built) THEN Built(TRUE, FALSE, {})
                        ELSE Raised
  /\ UNCHANGED <<kind, showEmptyGroups, emptyGroups, showItemCounts, filter, useInitialLetter,
                 sortColumn, sortAscending, dvTree, dvExpanded>>

\* GroupListView._HandleColumnClick -> SortBy -> _SortItemsNow
LIST_HandleColumnClick(col) ==
  /\ kind = LIST
  /\ \E ascending \in {IF col = sortColumn THEN ~sortAscending ELSE TRUE} :
     \E grps0 \in {IF col # sortColumn THEN GroupsNone ELSE groups} :
     \E grps1 \in {IF grps0 = GroupsNone
                   THEN ListBuildGroups(modelObjects, filter, GetGroupByColumn(col),
                                        useInitialLetter, emptyGroups, showItemCounts)
                   ELSE grps0} :
     \E sorted \in {SortObjects(modelObjects, col, NoColumn, ascending)} :
        /\ sortColumn' = col
        /\ sortAscending' = ascending
        /\ IF ~showGroups
           THEN /\ modelObjects' = sorted
                /\ groups' = grps0
                /\ last' = Plain
           ELSE IF ~GroupsOrderable(grps1)
           THEN /\ UNCHANGED modelObjects
                /\ groups' = grps1
                /\ last' = Raised
           ELSE /\ modelObjects' = sorted
                /\ groups' = IF sorted = <<>> THEN <<>>
                             ELSE SortGroupsSelf(grps1, ascending, col, ascending)
                /\ last' = IF sorted = <<>> THEN Plain ELSE Built(TRUE, FALSE, {})
  /\ UNCHANGED <<kind, showEmptyGroups, showGroups, emptyGroups, showItemCounts, filter,
                 useInitialLetter, dvTree, dvExpanded>>

\* GroupListView.RebuildGroups: groups = _BuildGroups(); SortGroups(groups);
\* _SetGroups(groups) -- the list handed to _SetGroups is the one _BuildGroups made
LIST_RebuildGroups ==
  /\ kind = LIST
  /\ \E built \in {ListBuildGroups(modelObjects, filter, GetGroupByColumn(sortColumn),
                                   useInitialLetter, emptyGroups, showItemCounts)} :
     \E sorted \in {SortObjects(modelObjects, sortColumn, NoColumn, sortAscending)} :
        IF ~GroupsOrderable(built)
        THEN /\ UNCHANGED <<modelObjects, groups>>
             /\ last' = Raised
        ELSE /\ modelObjects' = sorted
             /\ groups' = IF showGroups /\ sorted = <<>> THEN <<>>
                          ELSE SortGroupsArg(built, sortColumn, sortAscending)
             /\ last' = IF showGroups /\ sorted = <<>> THEN Plain
                        ELSE Built(TRUE, FALSE, {})
  /\ UNCHANGED <<kind, showEmptyGroups, showGroups, emptyGroups, showItemCounts, filter,
                 useInitialLetter, sortColumn, sortAscending, dvTree, dvExpanded>>

\* ObjectListView.SetFilter: the filter is stored, nothing is rebuilt
LIST_SetFilter(flt) ==
  /\ kind = LIST
  /\ filter' = flt
  /\ last' = Plain
  /\ UNCHANGED <<kind, showEmptyGroups, modelObjects, groups, showGroups, emptyGroups, showItemCounts,
                 useInitialLetter, sortColumn, sortAscending, dvTree, dvExpanded>>

LIST_SetEmptyGroups(keys) ==
  /\ kind = LIST
  /\ emptyGroups' = keys
  /\ last' = Plain
  /\ UNCHANGED <<kind, showEmptyGroups, modelObjects, groups, showGroups, showItemCounts, filter,
                 useInitialLetter, sortColumn, sortAscending, dvTree, dvExpanded>>

\* GroupListView.SetShowItemCounts: the titles are rebuilt, then _SetGroups
\* repopulates; iterating self.groups raises TypeError while it is None
LIST_SetShowItemCounts(show) ==
  /\ kind = LIST
  /\ showItemCounts' = show
  /\ IF show = showItemCounts \/ groups = GroupsNone
     THEN UNCHANGED <<modelObjects, groups>>
     ELSE /\ modelObjects' = SortObjects(modelObjects, sortColumn, NoColumn, sortAscending)
          /\ groups' = IF showGroups /\ modelObjects = <<>> THEN <<>>
                       ELSE BuildGroupTitles(groups, show)
  /\ last' = IF show # showItemCounts /\ groups = GroupsNone THEN Raised ELSE Plain
  /\ UNCHANGED <<kind, showEmptyGroups, showGroups, emptyGroups, filter, useInitialLetter,
                 sortColumn, sortAscending, dvTree, dvExpanded>>

-----------------------------------------------------------------------------
(* One control, from its construction on *)

\* no navigation call made; model objects compare by identity
NavIdle ==
  /\ modelEq = "is"
  /\ navCall = [made |-> FALSE]

\* a color: a wx.Colour, or a pair [color for odd rows, color for even rows];
\* NoColor stands for a key that a dictionary does not hold
Colour(c) == [pair |-> FALSE, a |-> c, b |-> c]
ColourPair(odd, even) == [pair |-> TRUE, a |-> odd, b |-> even]
NoColor == Colour("")

\* self.sortCounter = None
NoCounter == -1

\* DataObjectListView.__init__ and NormalListModel.__init__: no override is
\* registered, nothing is cached, no call made
AttrIdle ==
  /\ colorOverride_cell = [c \in Objects \X Columns |-> NoColor]
  /\ colorOverride_column = [c \in Columns |-> NoColor]
  /\ colorOverride_row = [o \in Objects |-> NoColor]
  /\ colorOverride_function = "None"
  /\ colorOverride_groupFunction = "None"
  /\ colorCatalogue = [o \in Objects |-> NoColor]
  /\ sortCounter = NoCounter
  /\ sort_colorCatalogue = [o \in Objects |-> NoColor]
  /\ modelCall = [made |-> FALSE]

\* a munger: None, the name of an attribute or a key, an integer index, or a
\* callable
NoMunger == [form |-> "None", name |-> "", index |-> 0]
Name(n) == [form |-> "Name", name |-> n, index |-> 0]
Index(i) == [form |-> "Index", name |-> "", index |-> i]
Function(f) == [form |-> "Function", name |-> f, index |-> 0]

\* no column is looked at: no getter, no setter, no call made
MungeIdle ==
  /\ mungedObject = [made |-> FALSE]
  /\ valueGetter = NoMunger
  /\ valueSetter = NoMunger
  /\ mungeCall = [made |-> FALSE]

\* every group key can be computed; no AddObjects / RemoveObjects call made
FailIdle ==
  /\ keyRaises = {}
  /\ rebuildCall = [made |-> FALSE]

\* the cells of the model objects
Cells == {"c1", "c2"}

\* DataObjectListView.__init__: the histories are empty, no paste is going on,
\* no notification was sent
UndoIdle ==
  /\ cellValues = [c \in Cells |-> "a"]
  /\ undoHistory = <<>>
  /\ redoHistory = <<>>
  /\ undoCap = 1
  /\ paste_ignoreSort = FALSE
  /\ lastUndoEvent = "none"
  /\ lastRedoEvent = "none"
  /\ historiesSet = FALSE
  /\ undoCall = [made |-> FALSE]

ExtrasIdle == NavIdle /\ AttrIdle /\ MungeIdle /\ FailIdle /\ UndoIdle

SortIdle ==
  /\ sortIn = <<>>
  /\ sortOut = <<>>
  /\ sortArgs = [sortColumn |-> NoColumn, secondarySortColumn |-> NoColumn,
                 sortAscending |-> TRUE, called |-> FALSE]

CompareIdle ==
  /\ caseSensitive = TRUE
  /\ compareFunction = "None"
  /\ groupCompareFunction = "None"
  /\ Compare = "Compare_None"
  /\ cmpCall = [made |-> FALSE]
  /\ cmpResult = [raised |-> FALSE, n |-> 0]

ControlIdle ==
  /\ kind = "none"
  /\ modelObjects = <<>>
  /\ groups = <<>>
  /\ showGroups = FALSE
  /\ emptyGroups = <<>>
  /\ showEmptyGroups = FALSE
  /\ showItemCounts = TRUE
  /\ filter = NoFilter
  /\ useInitialLetter = FALSE
  /\ sortColumn = NoColumn
  /\ sortAscending = TRUE
  /\ dvTree = {}
  /\ dvExpanded = {}
  /\ last = Plain

\* DataObjectListView.__init__ with its defaults (showGroups False, showItemCounts
\* True, no empty groups, no filter, unsorted); the columns are given with or
\* without useInitialLetterForGroupKey
InitData ==
  /\ kind = DATA
  /\ modelObjects = <<>>
  /\ groups = <<>>
  /\ showGroups = FALSE
  /\ emptyGroups = <<>>
  /\ showEmptyGroups = FALSE
  /\ showItemCounts = TRUE
  /\ filter = NoFilter
  /\ useInitialLetter \in BOOLEAN
  /\ sortColumn = NoColumn
  /\ sortAscending = TRUE
  /\ dvTree = {}
  /\ dvExpanded = {}
  /\ last = Plain
  /\ SortIdle
  /\ CompareIdle
  /\ ExtrasIdle

NextData ==
  \/ \E objs \in Lists(MaxObjects), p \in BOOLEAN : DOLV_SetObjects(objs, p)
  \/ \E objs \in NonEmptyLists(MaxBatch), p \in BOOLEAN : DOLV_AddObjects(objs, p)
  \/ \E objs \in NonEmptyLists(MaxBatch), p \in BOOLEAN : DOLV_RemoveObjects(objs, p)
  \/ DOLV_ClearAll
  \/ \E show \in BOOLEAN : DOLV_SetShowGroups(show)
  \/ \E keys \in EmptyGroupLists : DOLV_SetEmptyGroups(keys)
  \/ \E show \in BOOLEAN : DOLV_SetShowItemCounts(show)
  \/ \E i \in 1..MaxObjects, e \in BOOLEAN : DOLV_ExpandCollapse(i, e)

SpecData == InitData /\ [][NextData /\ UNCHANGED <<sortVars, cmpVars, extraVars>>]_vars

\* GroupListView.__init__ with its defaults (showGroups True, showItemCounts True,
\* groups an empty list, no filter, unsorted)
InitList ==
  /\ kind = LIST
  /\ modelObjects = <<>>
  /\ groups = <<>>
  /\ showGroups = TRUE
  /\ emptyGroups = <<>>
  /\ showEmptyGroups = FALSE
  /\ showItemCounts = TRUE
  /\ filter = NoFilter
  /\ useInitialLetter \in BOOLEAN
  /\ sortColumn = NoColumn
  /\ sortAscending = TRUE
  /\ dvTree = {}
  /\ dvExpanded = {}
  /\ last = Plain
  /\ SortIdle
  /\ CompareIdle
  /\ ExtrasIdle

NextList ==
  \/ \E objs \in Lists(MaxObjects) : LIST_SetObjects(objs)
  \/ \E objs \in NonEmptyLists(MaxBatch) : LIST_AddObjects(objs)
  \/ \E objs \in NonEmptyLists(MaxBatch) : LIST_RemoveObjects(objs)
  \/ \E show \in BOOLEAN : LIST_SetShowGroups(show)
  \/ \E col \in Columns : LIST_HandleColumnClick(col)
  \/ LIST_RebuildGroups
  \/ \E flt \in Filters : LIST_SetFilter(flt)
  \/ \E keys \in EmptyGroupLists : LIST_SetEmptyGroups(keys)
  \/ \E show \in BOOLEAN : LIST_SetShowItemCounts(show)

SpecList == InitList /\ [][NextList /\ UNCHANGED <<sortVars, cmpVars, extraVars>>]_vars

-----------------------------------------------------------------------------
(* _BuildGroups as a function of what it reads: the object list, the grouping *)
(* column, the empty-group keys, the item-count flag and, in GroupListView,   *)
(* the filter.  groups holds the list the call returned.                      *)

BuildEmptyGroupLists ==
  {<<>>, <<PyStr(<<"A">>), PyStr(<<"Z">>)>>, <<PyStr(<<"Z">>), PyInt(3), PyStr(<<"Z">>)>>}

InitBuild ==
  /\ kind \in {DATA, LIST}
  /\ modelObjects \in Lists(MaxInput)
  /\ groups = <<>>
  /\ showGroups = TRUE
  /\ emptyGroups \in BuildEmptyGroupLists
  /\ showEmptyGroups = FALSE
  /\ showItemCounts \in BOOLEAN
  /\ filter \in Filters
  /\ useInitialLetter \in BOOLEAN
  /\ sortColumn \in {NoColumn, "age"}
  /\ sortAscending = TRUE
  /\ dvTree = {}
  /\ dvExpanded = {}
  /\ last = Plain
  /\ SortIdle
  /\ CompareIdle
  /\ ExtrasIdle

\* groups = self._BuildGroups() in DataObjectListView.RebuildGroups
DOLV_BuildGroups ==
  /\ kind = DATA
  /\ ~last.built
  /\ groups' = DataBuildGroups(modelObjects, GetGroupByColumn(sortColumn),
                               useInitialLetter, emptyGroups, showItemCounts)
  /\ last' = Built(FALSE, FALSE, {})
  /\ UNCHANGED <<kind, showEmptyGroups, modelObjects, showGroups, emptyGroups, showItemCounts, filter,
                 useInitialLetter, sortColumn, sortAscending, dvTree, dvExpanded>>

\* groups = self._BuildGroups() in GroupListView.RebuildGroups
LIST_BuildGroups ==
  /\ kind = LIST
  /\ ~last.built
  /\ groups' = ListBuildGroups(modelObjects, filter, GetGroupByColumn(sortColumn),
                               useInitialLetter, emptyGroups, showItemCounts)
  /\ last' = Built(FALSE, FALSE, {})
  /\ UNCHANGED <<kind, showEmptyGroups, modelObjects, showGroups, emptyGroups, showItemCounts, filter,
                 useInitialLetter, sortColumn, sortAscending, dvTree, dvExpanded>>

NextBuild == DOLV_BuildGroups \/ LIST_BuildGroups

SpecBuild == InitBuild /\ [][NextBuild /\ UNCHANGED <<sortVars, cmpVars, extraVars>>]_vars

-----------------------------------------------------------------------------
(* Properties of the groups *)

\* how often object o occurs in a list
Occurrences(o, list) == Cardinality({i \in DOMAIN list : list[i] = o})

\* how often object o occurs as a member of the non-empty groups
Memberships(o, grps) ==
  LET count[n \in 0..Len(grps)] ==
        IF n = 0 THEN 0 ELSE count[n - 1] + Occurrences(o, grps[n].modelObjects)
  IN count[Len(grps)]

MembersOf(group) == {group.modelObjects[i] : i \in DOMAIN group.modelObjects}

PairwiseDisjoint(grps) ==
  \A i, j \in DOMAIN grps : i # j => MembersOf(grps[i]) \cap MembersOf(grps[j]) = {}

\* the group key of an object under the control's grouping column
KeyOf(o) == GetGroupKey(GetGroupByColumn(sortColumn), o, useInitialLetter)

\* C1 as stated: the groups _BuildGroups produced from a non-empty object list are
\* pairwise disjoint and hold every object of the list exactly as often as the
\* list does, and nothing else.
C1_PartitionOfInput ==
  (last.built /\ modelObjects # <<>>) =>
     /\ PairwiseDisjoint(groups)
     /\ \A o \in Objects : Memberships(o, groups) = Occurrences(o, modelObjects)

\* C1, amended: the groups _BuildGroups produced from a non-empty object list are
\* pairwise disjoint and hold exactly the objects of the list that the control's
\* filter lets through -- GroupListView._BuildGroups filters first; without a
\* filter, and in DataObjectListView, that is every object of the list.
C1_PartitionOfFiltered ==
  (last.built /\ modelObjects # <<>>) =>
     /\ PairwiseDisjoint(groups)
     /\ \A o \in Objects :
          Memberships(o, groups) =
             IF kind = LIST /\ filter.callable /\ o \notin filter.pass THEN 0
             ELSE Occurrences(o, modelObjects)

\* a GroupListView whose filter rejects one of three objects partitioned the other
\* two into two groups
C1_Witness ==
  /\ last.built
  /\ kind = LIST
  /\ Len(modelObjects) = 3
  /\ filter.callable
  /\ \E i \in DOMAIN modelObjects : modelObjects[i] \notin filter.pass
  /\ \E i, j \in DOMAIN groups : i # j /\ groups[i].modelObjects # <<>>
                                       /\ groups[j].modelObjects # <<>>

\* C3: for every key of the empty-group key list the built list holds exactly one
\* group of that key: an empty one when no object has the key, the ordinary
\* non-empty group when some object has it (DataObjectListView; GroupListView with
\* no filter installed).
C3_OneGroupPerEmptyKey ==
  (last.built /\ (kind = DATA \/ ~filter.callable)) =>
     \A k \in DOMAIN emptyGroups :
        LET at == {i \in DOMAIN groups : groups[i].key = emptyGroups[k]}
            having == {n \in DOMAIN modelObjects : KeyOf(modelObjects[n]) = emptyGroups[k]}
        IN /\ Cardinality(at) = 1
           /\ \A i \in at :
                IF having = {}
                THEN groups[i].modelObjects = <<>> /\ groups[i].empty
                ELSE groups[i].modelObjects # <<>> /\ ~groups[i].empty

\* a build where one empty-group key is taken by objects and another one, listed
\* twice, is not
C3_Witness ==
  /\ last.built
  /\ kind = DATA
  /\ \E k \in DOMAIN emptyGroups :
        \E n \in DOMAIN modelObjects : KeyOf(modelObjects[n]) = emptyGroups[k]
  /\ \E k, m \in DOMAIN emptyGroups :
        /\ k # m
        /\ emptyGroups[k] = emptyGroups[m]
        /\ \A n \in DOMAIN modelObjects : KeyOf(modelObjects[n]) # emptyGroups[k]

\* where a key is first seen in the object list
FirstSeen(key) ==
  LET at == {n \in DOMAIN modelObjects : KeyOf(modelObjects[n]) = key}
  IN CHOOSE n \in at : \A m \in at : n <= m

\* C4: building does not sort: the non-empty groups stand in the order in which
\* their keys are first seen in the object list, and the members of each group
\* are the objects of that key in their input order (DataObjectListView;
\* GroupListView with no filter installed).
C4_FirstSeenOrder ==
  (last.built /\ (kind = DATA \/ ~filter.callable)) =>
     /\ \A i, j \in DOMAIN groups :
          (i < j /\ groups[i].modelObjects # <<>> /\ groups[j].modelObjects # <<>>)
             => FirstSeen(groups[i].key) < FirstSeen(groups[j].key)
     /\ \A i \in DOMAIN groups :
          groups[i].modelObjects =
             SelectSeq(modelObjects, LAMBDA o : KeyOf(o) = groups[i].key)

\* Banana, apricot, Apple grouped by first letter: group "B" stands before group
\* "A", and "A" holds apricot before Apple, as the input does
C4_Witness ==
  /\ last.built
  /\ kind = DATA
  /\ modelObjects = <<"o1", "o3", "o2">>
  /\ useInitialLetter /\ sortColumn = NoColumn
  /\ Len(groups) >= 2
  /\ groups[1].key = PyStr(<<"B">>)
  /\ groups[2].key = PyStr(<<"A">>)
  /\ groups[2].modelObjects = <<"o3", "o2">>

\* C5: with item counts enabled every group built has the title "<key string>
\* (<n> item)" when it has exactly one member and "<key string> (<n> items)"
\* otherwise, zero members included.
C5_TitleCounts ==
  (last.built /\ showItemCounts) =>
     \A i \in DOMAIN groups :
        LET n == Len(groups[i].modelObjects)
        IN groups[i].title =
             StringToValue(groups[i].key) \o " (" \o ToString(n)
                \o (IF n = 1 THEN " item)" ELSE " items)")

\* Apple, apricot, Banana by first letter give "A (2 items)" and "B (1 item)", and
\* the empty group of key "Z" is titled "Z (0 items)"
C5_Witness ==
  /\ last.built
  /\ showItemCounts
  /\ modelObjects = <<"o2", "o3", "o1">>
  /\ Len(groups) = 3
  /\ groups[1].title = "A (2 items)"
  /\ groups[2].title = "B (1 item)"
  /\ groups[3].title = "Z (0 items)"

-----------------------------------------------------------------------------
(* Properties of a control over its life *)

\* C2: whenever grouping is enabled on a DataObjectListView, after any sequence of
\* SetObjects, AddObjects, RemoveObjects, ClearAll and SetShowGroups calls, the
\* groups the model hands to the view are the partition of the current object
\* collection: every current object is a member of exactly one group, and no
\* group holds an object that is no longer in the collection.
C2_GroupsPartitionCollection ==
  (kind = DATA /\ showGroups) =>
     /\ PairwiseDisjoint(groups)
     /\ \A o \in Objects : Memberships(o, groups) = Occurrences(o, modelObjects)

\* the groups of the view's tree that have members to show
ShownKeys == {groups[i].key : i \in {j \in DOMAIN groups : groups[j].modelObjects # <<>>}}

\* C6: after the groups of a DataObjectListView were rebuilt with expansion
\* preserved, every group whose key the previous group list had is expanded exactly
\* if the previous group of that key was, and every group of a new key is expanded.
C6_ExpansionPreserved ==
  (kind = DATA /\ last.built /\ last.preserve) =>
     \A key \in ShownKeys :
        IF key \in last.prevKeys
        THEN (key \in dvExpanded) <=> (key \in last.prevExpanded)
        ELSE key \in dvExpanded

\* C10: after the groups of a GroupListView were rebuilt or sorted, the group list
\* is ordered by the lower-cased key of each group, ascending when the sort
\* direction is ascending and reversed otherwise.
C10_GroupsOrdered ==
  (kind = LIST /\ last.built /\ last.sorted /\ groups # GroupsNone) =>
     \A i, j \in DOMAIN groups :
        i < j =>
           IF sortAscending
           THEN ~PyLess(getLowerCaseKey(groups[j]), getLowerCaseKey(groups[i]))
           ELSE ~PyLess(getLowerCaseKey(groups[i]), getLowerCaseKey(groups[j]))

\* a before b in the direction of the sort, or level with it (str compared lower-cased)
InSortOrder(a, b) ==
  IF sortAscending THEN ~PyLess(TryLower(b), TryLower(a))
  ELSE ~PyLess(TryLower(a), TryLower(b))

\* C11: after a call that sorted the groups of a GroupListView with a sort column,
\* the members of every group stand in the order of their values in the sort
\* column, and two members whose sort values tie stand in the order of their
\* values in the primary column (both in the direction of the sort).
C11_MembersSortedWithTieBreak ==
  (kind = LIST /\ last.built /\ last.sorted /\ groups # GroupsNone
     /\ sortColumn # NoColumn) =>
     \A g \in DOMAIN groups :
        \A i, j \in DOMAIN groups[g].modelObjects :
           i < j =>
              LET a == groups[g].modelObjects[i]
                  b == groups[g].modelObjects[j]
              IN /\ InSortOrder(GetValue(sortColumn, a), GetValue(sortColumn, b))
                 /\ TryLower(GetValue(sortColumn, a)) = TryLower(GetValue(sortColumn, b))
                      => InSortOrder(GetValue(PrimaryColumn, a), GetValue(PrimaryColumn, b))

\* Banana(3) was added before Apple(3); sorted by age they tie, so the group of
\* age 3 lists Apple first while the flat list keeps Banana first
C11_Witness ==
  /\ kind = LIST /\ last.built /\ last.sorted /\ groups # GroupsNone
  /\ sortColumn = "age" /\ sortAscending
  /\ modelObjects = <<"o1", "o2">>
  /\ \E g \in DOMAIN groups : groups[g].modelObjects = <<"o2", "o1">>

-----------------------------------------------------------------------------
(* ObjectListView._SortObjects as a function of the list, the two columns and *)
(* the direction                                                             *)

InitSort ==
  /\ ControlIdle
  /\ CompareIdle
  /\ ExtrasIdle
  /\ sortIn \in UNION {[1..m -> Objects] : m \in 0..MaxSortLen}
  /\ sortOut = <<>>
  /\ sortArgs \in [sortColumn : Columns \cup {NoColumn},
                   secondarySortColumn : Columns \cup {NoColumn},
                   sortAscending : BOOLEAN, called : {FALSE}]

\* self._SortObjects(modelObjects, sortColumn, secondarySortColumn)
SortObjectsCall ==
  /\ ~sortArgs.called
  /\ sortOut' = SortObjects(sortIn, sortArgs.sortColumn, sortArgs.secondarySortColumn,
                            sortArgs.sortAscending)
  /\ sortArgs' = [sortArgs EXCEPT !.called = TRUE]
  /\ UNCHANGED sortIn

NextSort == SortObjectsCall

SpecSort == InitSort /\ [][NextSort /\ UNCHANGED <<ctlVars, cmpVars, extraVars>>]_vars

\* the sort key of an object in the last _SortObjects call
SortKey(o) ==
  getSortValue(o, sortArgs.sortColumn,
               IF sortArgs.secondarySortColumn = sortArgs.sortColumn THEN NoColumn
               ELSE sortArgs.secondarySortColumn)

\* C7: sorting ascending is stable: the list comes out in ascending order of the
\* sort keys, and the objects whose sort keys tie stand in the relative order they
\* had in the list handed in.
C7_StableAscending ==
  (sortArgs.called /\ sortArgs.sortColumn # NoColumn /\ sortArgs.sortAscending) =>
     /\ \A i, j \in DOMAIN sortOut :
          i < j => ~TupleLess(SortKey(sortOut[j]), SortKey(sortOut[i]))
     /\ \A o \in Objects :
          SelectSeq(sortOut, LAMBDA x : SortKey(x) = SortKey(o))
             = SelectSeq(sortIn, LAMBDA x : SortKey(x) = SortKey(o))

\* Banana(3), Apple(3), apricot(1) sorted by age ascending, no secondary column:
\* apricot, Banana, Apple
C7_Witness ==
  /\ sortArgs.called
  /\ sortArgs.sortColumn = "age"
  /\ sortArgs.secondarySortColumn = NoColumn
  /\ sortArgs.sortAscending
  /\ sortIn = <<"o1", "o2", "o3">>
  /\ sortOut = <<"o3", "o1", "o2">>

-----------------------------------------------------------------------------
(* The comparison functions of NormalListModel (DataObjectListView.py) *)

\* a tuple of Python values
PyTuple(items) == [t |-> "tuple", n |-> 0, s |-> items]

\* v1 against v2 as the operators < and > see them: "lt", "gt", "eq", or
\* "TypeError" when the first items that differ cannot be ordered
RECURSIVE PyCmp(_, _)
RECURSIVE SeqCmp(_, _)
PyCmp(v1, v2) ==
  IF v1 = v2 THEN "eq"
  ELSE IF v1.t = "tuple" /\ v2.t = "tuple" THEN SeqCmp(v1.s, v2.s)
  ELSE IF ~PyOrderable(v1, v2) THEN "TypeError"
  ELSE IF PyLess(v1, v2) THEN "lt" ELSE "gt"
SeqCmp(s1, s2) ==
  IF s1 = <<>> \/ s2 = <<>>
  THEN (IF s1 = s2 THEN "eq" ELSE IF s1 = <<>> THEN "lt" ELSE "gt")
  ELSE IF s1[1] = s2[1] THEN SeqCmp(Tail(s1), Tail(s2))
  ELSE PyCmp(s1[1], s2[1])

\* the items of the view: a plain row with the value its object has in the column,
\* or a group with its title
Row(value) == [group |-> FALSE, value |-> value]
Group(title) == [group |-> TRUE, value |-> PyStr(title)]
CmpItems ==
  {Row(PyNone), Row(PyInt(1)), Row(PyInt(3)), Row(PyStr(Apple)), Row(PyStr(Apricot)),
   Group(<<"A">>), Group(<<"B">>)}

\* the renderer of the column compared on: Renderer_Text (the default),
\* Renderer_File (no branch of GetValue names it), Renderer_Bmp
Renderers == {"text", "file", "bmp"}

\* NormalListModel.GetValue(item, column, alternateGetter = defn.sortGetter)
\* Under Renderer_Text a row yields the tuple (value, text, icon).  The text is
\* computed from the value by a library outside this repository; two rows with
\* equal values have equal texts and two rows with different values are decided
\* by the first element, so the text never decides a comparison and is kept as
\* the empty string here.
ModelGetValue(item, renderer) ==
  IF item.group
  THEN IF renderer = "text" THEN PyTuple(<<item.value, item.value, PyNone>>)
       ELSE item.value
  ELSE IF renderer = "text"
       THEN PyTuple(<<item.value, PyStr(<<>>), PyNone>>)
       ELSE IF item.value.t = "none" THEN PyStr(<<>>) ELSE item.value

\* NormalListModel.GetSortValue
GetSortValue(item, renderer) ==
  IF renderer = "bmp" THEN PyTuple(<<PyBool(FALSE), PyInt(0)>>)
  ELSE LET value == IF ~caseSensitive THEN TryLower(ModelGetValue(item, renderer))
                    ELSE ModelGetValue(item, renderer)
       IN PyTuple(<<PyBool(value.t = "none"), value>>)

Returned(n) == [raised |-> FALSE, n |-> n]
TypeError == [raised |-> TRUE, n |-> 0]

\* NormalListModel.Compare_None
Compare_None(item1, item2, column, ascending) ==
  LET c == PyCmp(GetSortValue(item1, column), GetSortValue(item2, column))
  IN CASE c = "lt" -> Returned(IF ascending THEN -1 ELSE 1)
       [] c = "gt" -> Returned(IF ascending THEN 1 ELSE -1)
       [] c = "eq" -> Returned(0)
       [] OTHER -> TypeError

\* the comparators an application installs: what they answer for a pair
NoOpinion == [none |-> TRUE, n |-> 0]
Opinion(n) == [none |-> FALSE, n |-> n]
Comparators == {"alwaysZero", "opinionOnInts", "noOpinion"}
Answer(function, node1, node2, ascending) ==
  CASE function = "alwaysZero" -> Opinion(0)
    [] function = "opinionOnInts" ->
         IF node1.value.t = "int" /\ node2.value.t = "int"
         THEN Opinion(IF ascending THEN node2.value.n - node1.value.n
                      ELSE node1.value.n - node2.value.n)
         ELSE NoOpinion
    [] OTHER -> NoOpinion

\* a Compare_Row that takes every falsy answer for "no opinion"
Compare_RowFalsy(item1, item2, column, ascending) ==
  IF ~item1.group /\ ~Answer(compareFunction, item1, item2, ascending).none
       /\ Answer(compareFunction, item1, item2, ascending).n # 0
  THEN Returned(Answer(compareFunction, item1, item2, ascending).n)
  ELSE Compare_None(item1, item2, column, ascending)

\* NormalListModel.Compare_Row
Compare_Row(item1, item2, column, ascending) ==
  IF ~item1.group /\ ~Answer(compareFunction, item1, item2, ascending).none
  THEN Returned(Answer(compareFunction, item1, item2, ascending).n)
  ELSE Compare_None(item1, item2, column, ascending)

\* NormalListModel.Compare_Group
Compare_Group(item1, item2, column, ascending) ==
  IF item1.group /\ ~Answer(groupCompareFunction, item1, item2, ascending).none
  THEN Returned(Answer(groupCompareFunction, item1, item2, ascending).n)
  ELSE Compare_None(item1, item2, column, ascending)

\* NormalListModel.Compare_GroupRow
Compare_GroupRow(item1, item2, column, ascending) ==
  LET answer == IF item1.group
                THEN Answer(groupCompareFunction, item1, item2, ascending)
                ELSE Answer(compareFunction, item1, item2, ascending)
  IN IF ~answer.none THEN Returned(answer.n)
     ELSE Compare_None(item1, item2, column, ascending)

\* NormalListModel.SelectCompare
SelectCompare(rowFunction, groupFunction) ==
  IF rowFunction = "None"
  THEN IF groupFunction = "None" THEN "Compare_None" ELSE "Compare_Group"
  ELSE IF groupFunction = "None" THEN "Compare_Row" ELSE "Compare_GroupRow"

\* DataObjectListView(caseSensitive = ...): the model's Compare is Compare_None
InitCompare ==
  /\ ControlIdle
  /\ SortIdle
  /\ ExtrasIdle
  /\ caseSensitive \in BOOLEAN
  /\ compareFunction = "None"
  /\ groupCompareFunction = "None"
  /\ Compare = "Compare_None"
  /\ cmpCall = [made |-> FALSE]
  /\ cmpResult = Returned(0)

\* DataObjectListView.SetCompareFunction(function)
SetCompareFunction(function) ==
  /\ compareFunction' = function
  /\ Compare' = SelectCompare(function, groupCompareFunction)
  /\ cmpCall' = [made |-> FALSE]
  /\ cmpResult' = Returned(0)
  /\ UNCHANGED <<caseSensitive, groupCompareFunction>>

\* DataObjectListView.SetGroupCompareFunction(function)
SetGroupCompareFunction(function) ==
  /\ groupCompareFunction' = function
  /\ Compare' = SelectCompare(compareFunction, function)
  /\ cmpCall' = [made |-> FALSE]
  /\ cmpResult' = Returned(0)
  /\ UNCHANGED <<caseSensitive, compareFunction>>

\* the view asks model.Compare(item1, item2, column, ascending)
CompareCall(item1, item2, column, ascending) ==
  /\ cmpCall' = [made |-> TRUE, item1 |-> item1, item2 |-> item2, column |-> column,
                 ascending |-> ascending]
  /\ cmpResult' =
       CASE Compare = "Compare_Row" -> Compare_Row(item1, item2, column, ascending)
         [] Compare = "Compare_Group" -> Compare_Group(item1, item2, column, ascending)
         [] Compare = "Compare_GroupRow" -> Compare_GroupRow(item1, item2, column, ascending)
         [] OTHER -> Compare_None(item1, item2, column, ascending)
  /\ UNCHANGED <<caseSensitive, compareFunction, groupCompareFunction, Compare>>

NextCompare ==
  \/ \E function \in Comparators \cup {"None"} : SetCompareFunction(function)
  \/ \E function \in Comparators \cup {"None"} : SetGroupCompareFunction(function)
  \/ \E item1, item2 \in CmpItems, column \in Renderers, ascending \in BOOLEAN :
        CompareCall(item1, item2, column, ascending)

SpecCompare == InitCompare /\ [][NextCompare /\ UNCHANGED <<ctlVars, sortVars, extraVars>>]_vars

\* C8: a row whose sort value is none is ordered before every row whose sort
\* value is present, whatever the type of the present value, ascending and
\* descending: Compare answers negative with the none row first and positive with
\* the none row second.
C8_NoneFirst ==
  (cmpCall.made /\ Compare = "Compare_None" /\ cmpCall.column # "bmp") =>
     /\ (/\ ~cmpCall.item1.group /\ ~cmpCall.item2.group
         /\ cmpCall.item1.value.t = "none" /\ cmpCall.item2.value.t # "none")
           => (~cmpResult.raised /\ cmpResult.n < 0)
     /\ (/\ ~cmpCall.item1.group /\ ~cmpCall.item2.group
         /\ cmpCall.item1.value.t # "none" /\ cmpCall.item2.value.t = "none")
           => (~cmpResult.raised /\ cmpResult.n > 0)

\* C9: with a custom row comparator installed, Compare on two plain rows returns
\* the comparator's answer whenever that answer is not None, 0 included, and the
\* result of the default comparison for exactly the pairs the comparator answers
\* None for.
C9_CustomThenDefault ==
  (/\ cmpCall.made /\ compareFunction # "None"
   /\ ~cmpCall.item1.group /\ ~cmpCall.item2.group) =>
     LET answer == Answer(compareFunction, cmpCall.item1, cmpCall.item2, cmpCall.ascending)
     IN cmpResult = IF answer.none
                    THEN Compare_None(cmpCall.item1, cmpCall.item2, cmpCall.column,
                                      cmpCall.ascending)
                    ELSE Returned(answer.n)

\* a comparator that answers 0 was asked about two rows the default comparison
\* tells apart, and Compare returned 0
C9_Witness ==
  /\ cmpCall.made
  /\ compareFunction = "alwaysZero"
  /\ ~cmpCall.item1.group /\ ~cmpCall.item2.group
  /\ Compare_None(cmpCall.item1, cmpCall.item2, cmpCall.column, cmpCall.ascending)
        = Returned(-1)
  /\ cmpResult = Returned(0)


\* C22: the default comparison completes, without raising, also when the sort
\* values of the two rows cannot be ordered against each other (a number against
\* a string); it falls back to another way of comparing them.
C22_DefaultCompareNeverRaises ==
  ( /\ cmpCall.made
    /\ Compare = "Compare_None"
    /\ ~cmpCall.item1.group /\ ~cmpCall.item2.group
    /\ cmpCall.item1.value.t # "none" /\ cmpCall.item2.value.t # "none" )
  => ~cmpResult.raised

-----------------------------------------------------------------------------
(* Navigation on NormalListModel (DataObjectListView.py): the items of the   *)
(* view, their children, parents and siblings                                *)

MaxRows == 3

\* a wx.dataview.DataViewItem: ObjectToItem maps an object to the item of its
\* id(), so an item stands for one object (a row's model object, or the group of
\* a key); the null item is NullDataViewItem
NullItem == [k |-> "null", obj |-> "", key |-> PyNone]
RowItem(o) == [k |-> "row", obj |-> o, key |-> PyNone]
GroupItem(key) == [k |-> "group", obj |-> "", key |-> key]
IsOk(item) == item.k # "null"

\* a == b on model objects; "x in list" holds when x is or equals an element
ObjEq(a, b) == a = b \/ (modelEq = "age" /\ AgeOf(a) = AgeOf(b))

\* GetChildren.applyRowFilter
applyRowFilter(rows) == ApplyFilter(filter, rows)

\* the group object an item stands for
GroupOfKey(key) == groups[CHOOSE i \in DOMAIN groups : groups[i].key = key]

\* a GetChildren(root) that skips the groups with no member at all
RootGroupsUnfiltered ==
  SelectSeq(groups, LAMBDA g :
    ~(g.modelObjects = <<>>
      /\ (~showEmptyGroups \/ ~(\E k \in DOMAIN emptyGroups : emptyGroups[k] = g.key))))

\* GetChildren(root) with groups shown: the groups that are not skipped, in order
RootGroups ==
  SelectSeq(groups, LAMBDA g :
    ~(applyRowFilter(g.modelObjects) = <<>>
      /\ (~showEmptyGroups \/ ~(\E k \in DOMAIN emptyGroups : emptyGroups[k] = g.key))))

\* NormalListModel.GetChildrenList(parent)
GetChildrenList(parent) ==
  IF ~IsOk(parent)
  THEN IF showGroups
       THEN [i \in DOMAIN RootGroups |-> GroupItem(RootGroups[i].key)]
       ELSE LET rowList == applyRowFilter(modelObjects)
            IN [i \in DOMAIN rowList |-> RowItem(rowList[i])]
  ELSE IF parent.k = "group"
  THEN LET rowList == applyRowFilter(GroupOfKey(parent.key).modelObjects)
       IN [i \in DOMAIN rowList |-> RowItem(rowList[i])]
  ELSE <<>>

\* NormalListModel.GetChildren(parent, children): the items appended to children
\* and the number returned (self.rootLength for the root)
GetChildren(parent) ==
  [children |-> GetChildrenList(parent),
   count |-> IF ~IsOk(parent)
             THEN IF showGroups THEN Len(RootGroups)
                  ELSE Len(applyRowFilter(modelObjects))
             ELSE IF parent.k = "group"
             THEN Len(applyRowFilter(GroupOfKey(parent.key).modelObjects))
             ELSE 0]

\* NormalListModel.GetParent(item): "if (node in group.modelObjects)"
GetParent(item) ==
  IF ~showGroups \/ ~IsOk(item) \/ item.k = "group" THEN NullItem
  ELSE LET holding == {i \in DOMAIN groups :
                         \E m \in DOMAIN groups[i].modelObjects :
                            ObjEq(item.obj, groups[i].modelObjects[m])}
       IN IF holding = {} THEN NullItem
          ELSE GroupItem(groups[CHOOSE i \in holding : \A j \in holding : i <= j].key)

\* GetFirstItem / GetLastItem
GetFirstItem ==
  LET children == GetChildrenList(NullItem)
  IN IF children # <<>> THEN children[1] ELSE NullItem
GetLastItem ==
  LET children == GetChildrenList(NullItem)
  IN IF children # <<>> THEN children[Len(children)] ELSE NullItem

\* where the loops over the siblings meet the item: its first occurrence, 0 if none
FirstAt(siblings, item) ==
  LET at == {i \in DOMAIN siblings : siblings[i] = item}
  IN IF at = {} THEN 0 ELSE CHOOSE i \in at : \A j \in at : i <= j

\* NormalListModel.GetPreviousSibling(item)
GetPreviousSibling(item) ==
  LET siblings == GetChildrenList(GetParent(item))
      at == FirstAt(siblings, item)
  IN IF at = 0
     THEN IF siblings = <<>> THEN NullItem ELSE siblings[Len(siblings)]
     ELSE IF at = 1 THEN NullItem ELSE siblings[at - 1]

\* a GetNextSibling that answers with the last sibling
GetNextSiblingLast(item) ==
  LET siblings == GetChildrenList(GetParent(item))
      at == FirstAt(siblings, item)
  IN IF at = 0 \/ at = Len(siblings) THEN NullItem ELSE siblings[Len(siblings)]

\* NormalListModel.GetNextSibling(item)
GetNextSibling(item) ==
  LET siblings == GetChildrenList(GetParent(item))
      at == FirstAt(siblings, item)
  IN IF at = 0 \/ at = Len(siblings) THEN NullItem ELSE siblings[at + 1]

\* self.olv.IsExpanded(item): DataViewCtrl.IsExpanded
IsExpanded(item) ==
  item.k = "group" /\ ViewIsExpanded(dvTree, dvExpanded, item.key, TRUE)

\* what a navigation method did: it returned an item, or raised IndexError
NavReturned(item) == [raised |-> FALSE, item |-> item]
IndexError == [raised |-> TRUE, item |-> NullItem]

\* NormalListModel.GetPreviousItem(item, wrap)
GetPreviousItem(item, wrap) ==
  LET sibling == GetPreviousSibling(item)
      children == GetChildrenList(sibling)
      previousItem == IF ~IsOk(sibling) THEN GetParent(item)
                      ELSE IF IsExpanded(sibling) THEN children[Len(children)]
                      ELSE sibling
  IN IF IsOk(sibling) /\ IsExpanded(sibling) /\ children = <<>> THEN IndexError
     ELSE IF wrap /\ ~IsOk(previousItem) THEN NavReturned(GetLastItem)
     ELSE NavReturned(previousItem)

\* GetNextItem, "Walk up levels until we find one that has a next sibling"
RECURSIVE WalkUp(_)
WalkUp(walk) ==
  IF ~IsOk(walk) THEN NullItem
  ELSE IF IsOk(GetNextSibling(walk)) THEN GetNextSibling(walk)
  ELSE WalkUp(GetParent(walk))

\* NormalListModel.GetNextItem(item, wrap)
GetNextItem(item, wrap) ==
  LET children == GetChildrenList(item)
      descend == ~IsOk(item) \/ IsExpanded(item)
      nextItem == IF descend THEN children[1] ELSE WalkUp(item)
  IN IF descend /\ children = <<>> THEN IndexError
     ELSE IF wrap /\ ~IsOk(nextItem) THEN NavReturned(GetFirstItem)
     ELSE NavReturned(nextItem)

\* yieldRows, "while True: row = self.GetNext(row, wrap = False)": the rows met
\* from item on and how the loop ends: GetNextItem returned the null item, or
\* raised, or the loop is still running after more steps than there are rows
RECURSIVE Walk(_, _, _)
Walk(item, visited, steps) ==
  IF ~IsOk(item) THEN [ended |-> "null", visited |-> visited]
  ELSE IF steps > Len(modelObjects) + Len(groups)
  THEN [ended |-> "never", visited |-> visited]
  ELSE LET next == GetNextItem(item, FALSE)
       IN IF next.raised
          THEN [ended |-> "raised", visited |-> Append(visited, item)]
          ELSE Walk(next.item, Append(visited, item), steps + 1)

\* the keys handed to the control as emptyGroups: none, or the name of o3 and "Z"
NavEmptyGroupLists == {<<>>, <<PyStr(Apricot), PyStr(<<"Z">>)>>}

\* A DataObjectListView constructed with or without groups, after SetFilter(filter)
\* and SetObjects(modelObjects): the groups are those RebuildGroups built, the view
\* has read them after model.Cleared() and shows them collapsed.  The control is
\* given empty groups or none, and shows them or not.  The model objects are
\* plain objects, or objects of a class whose __eq__ compares the age.
InitNav ==
  /\ kind = DATA
  /\ showGroups \in BOOLEAN
  /\ modelObjects \in Lists(MaxRows)
  /\ emptyGroups \in NavEmptyGroupLists
  /\ showEmptyGroups \in BOOLEAN
  /\ showItemCounts = TRUE
  /\ filter \in Filters
  /\ useInitialLetter \in BOOLEAN
  /\ sortColumn = NoColumn
  /\ sortAscending = TRUE
  /\ groups = IF showGroups
              THEN DataBuildGroups(modelObjects, PrimaryColumn, useInitialLetter,
                                   emptyGroups, showItemCounts)
              ELSE <<>>
  /\ dvTree = ClearedTree(showGroups, groups, filter, emptyGroups)
  /\ dvExpanded = {}
  /\ last = Plain
  /\ modelEq \in {"is", "age"}
  /\ navCall = [made |-> FALSE]
  /\ SortIdle
  /\ CompareIdle
  /\ AttrIdle
  /\ MungeIdle
  /\ FailIdle
  /\ UndoIdle

\* the items a navigation method is handed: the null item, the groups, the rows
\* of the collection and the rows of objects that are no longer in it
NavItems ==
  {NullItem} \cup {RowItem(o) : o \in Objects}
             \cup {GroupItem(groups[i].key) : i \in DOMAIN groups}

NavMade(op, item, wrap, result) ==
  /\ ~navCall.made
  /\ navCall' = [made |-> TRUE, op |-> op, item |-> item, wrap |-> wrap, result |-> result]
  /\ UNCHANGED <<ctlVars, modelEq>>

\* the user expands or collapses a group: DataObjectListView.Expand / Collapse
NAV_ExpandCollapse(i, isExpanding) ==
  /\ ~navCall.made
  /\ DOLV_ExpandCollapse(i, isExpanding)
  /\ UNCHANGED navVars

GetNextItemCall(item, wrap) ==
  NavMade("GetNextItem", item, wrap, GetNextItem(item, wrap))
GetPreviousItemCall(item, wrap) ==
  NavMade("GetPreviousItem", item, wrap, GetPreviousItem(item, wrap))
GetNextSiblingCall(item) ==
  NavMade("GetNextSibling", item, FALSE, NavReturned(GetNextSibling(item)))
GetPreviousSiblingCall(item) ==
  NavMade("GetPreviousSibling", item, FALSE, NavReturned(GetPreviousSibling(item)))
GetParentCall(item) ==
  NavMade("GetParent", item, FALSE, NavReturned(GetParent(item)))
GetChildrenCall(parent) ==
  NavMade("GetChildren", parent, FALSE, GetChildren(parent))
\* the rows are walked from GetFirstItem() on
WalkCall ==
  NavMade("Walk", GetFirstItem, FALSE, Walk(GetFirstItem, <<>>, 0))

NextNav ==
  \/ \E i \in DOMAIN groups, isExpanding \in BOOLEAN : NAV_ExpandCollapse(i, isExpanding)
  \/ \E item \in NavItems, wrap \in BOOLEAN : GetNextItemCall(item, wrap)
  \/ \E item \in NavItems, wrap \in BOOLEAN : GetPreviousItemCall(item, wrap)
  \/ \E item \in NavItems : GetNextSiblingCall(item)
  \/ \E item \in NavItems : GetPreviousSiblingCall(item)
  \/ \E item \in NavItems : GetParentCall(item)
  \/ \E parent \in NavItems : GetChildrenCall(parent)
  \/ WalkCall

SpecNav == InitNav /\ [][NextNav /\ UNCHANGED <<sortVars, cmpVars, attrVars, mungeVars, failVars, undoVars>>]_vars

\* no object is listed twice
Distinct(list) == \A i, j \in DOMAIN list : i # j => list[i] # list[j]

\* C12: in a non-empty, unfiltered population, flat or grouped, with the groups
\* expanded or collapsed, GetNextItem(GetLastItem(), wrap=True) is GetFirstItem()
\* and GetPreviousItem(GetFirstItem(), wrap=True) is GetLastItem().  (Stated for
\* plain model objects, each listed once.)
C12_NavigationWraps ==
  (navCall.made /\ navCall.wrap /\ ~filter.callable /\ modelEq = "is"
     /\ Distinct(modelObjects) /\ IsOk(GetFirstItem)) =>
     /\ (navCall.op = "GetNextItem" /\ navCall.item = GetLastItem)
           => navCall.result = NavReturned(GetFirstItem)
     /\ (navCall.op = "GetPreviousItem" /\ navCall.item = GetFirstItem)
           => navCall.result = NavReturned(GetLastItem)

C14_ParentOfChild ==
  (navCall.made /\ navCall.op = "GetParent") =>
     /\ (navCall.item.k = "group" \/ ~showGroups) => navCall.result.item = NullItem
     /\ (showGroups /\ navCall.item.k = "row") =>
           \A i \in DOMAIN groups :
              (\E c \in DOMAIN GetChildrenList(GroupItem(groups[i].key)) :
                  GetChildrenList(GroupItem(groups[i].key))[c] = navCall.item)
              => navCall.result.item = GroupItem(groups[i].key)

\* the object passes the filter
Passes(o) == ~filter.callable \/ o \in filter.pass

\* the group has a member that passes the filter, or it is one of the empty
\* groups and empty groups are shown
GroupShown(g) ==
  \/ \E m \in DOMAIN g.modelObjects : Passes(g.modelObjects[m])
  \/ showEmptyGroups /\ \E k \in DOMAIN emptyGroups : emptyGroups[k] = g.key

\* C26: with groups shown, GetChildren(root) returns, in the order of the group
\* list, exactly the groups that have a member passing the filter or are shown as
\* empty groups (showEmptyGroups enabled and the key in emptyGroups);
\* GetChildren(group) returns exactly the members of the group that pass the
\* filter, in order; the count returned is the number of rows returned
C26_GetChildren ==
  (navCall.made /\ navCall.op = "GetChildren") =>
     LET shown == SelectSeq(groups, GroupShown)
         members == IF navCall.item.k = "group"
                    THEN SelectSeq(GroupOfKey(navCall.item.key).modelObjects, Passes)
                    ELSE <<>>
     IN /\ navCall.result.count = Len(navCall.result.children)
        /\ (showGroups /\ ~IsOk(navCall.item)) =>
              navCall.result.children = [i \in DOMAIN shown |-> GroupItem(shown[i].key)]
        /\ navCall.item.k = "group" =>
              navCall.result.children = [i \in DOMAIN members |-> RowItem(members[i])]

\* Apricot and Banana grouped by initial letter, the filter excluding Apricot,
\* empty groups shown: GetChildren(root) skips group "A" and returns group "B"
\* and the two empty groups
C26_Witness ==
  /\ navCall.made /\ navCall.op = "GetChildren" /\ ~IsOk(navCall.item)
  /\ showGroups /\ showEmptyGroups /\ useInitialLetter /\ filter.callable
  /\ modelObjects = <<"o3", "o1">>
  /\ Len(groups) = 4
  /\ navCall.result.count = 3
  /\ navCall.result.children[1] = GroupItem(PyStr(<<"B">>))

\* the rows on display, top to bottom: without groups the rows GetChildren(root)
\* returns; with groups each group GetChildren(root) returns, followed by its
\* rows when it is expanded
RECURSIVE DisplayFrom(_)
DisplayFrom(roots) ==
  IF roots = <<>> THEN <<>>
  ELSE <<Head(roots)>>
       \o (IF IsExpanded(Head(roots)) THEN GetChildrenList(Head(roots)) ELSE <<>>)
       \o DisplayFrom(Tail(roots))
DisplayOrder == DisplayFrom(GetChildrenList(NullItem))

\* C27: the walk from GetFirstItem() with GetNextItem(row, wrap=False) ends with
\* the null item after it has met the rows on display, each once, top to bottom
C27_WalkVisitsDisplay ==
  (navCall.made /\ navCall.op = "Walk") =>
     navCall.result = [ended |-> "null", visited |-> DisplayOrder]

\* C28: GetPreviousItem(s, wrap=False) is r for every row r on display whose
\* GetNextItem(r, wrap=False) is the row s
C28_PreviousInvertsNext ==
  (navCall.made /\ navCall.op = "GetPreviousItem" /\ ~navCall.wrap
     /\ IsOk(navCall.item)) =>
     \A p \in DOMAIN DisplayOrder :
        GetNextItem(DisplayOrder[p], FALSE) = NavReturned(navCall.item)
        => navCall.result = NavReturned(DisplayOrder[p])

\* the row of the item is displayed: its object is in the collection and passes
\* the filter
Displayed(item) ==
  \E i \in DOMAIN applyRowFilter(modelObjects) :
     applyRowFilter(modelObjects)[i] = item.obj

\* C21: for a row that is no longer displayed (its object was removed from the
\* collection, or the filter excludes it), GetParent returns the root (the null
\* item) and GetNextSibling and GetPreviousSibling return the null item; none of
\* them raises.  (Stated for plain model objects.)
C21_StaleRowNotFound ==
  ( /\ navCall.made
    /\ navCall.op \in {"GetParent", "GetNextSibling", "GetPreviousSibling"}
    /\ navCall.item.k = "row"
    /\ modelEq = "is"
    /\ ~Displayed(navCall.item) )
  => navCall.result = NavReturned(NullItem)

-----------------------------------------------------------------------------
(* Display attributes and Resort on NormalListModel (DataObjectListView.py)  *)

MaxColoured == 2

\* DataObjectListView.__init__: oddRowsBackColor, evenRowsBackColor
oddRowsBackColor == Colour("lemon chiffon")
evenRowsBackColor == Colour("alice blue")

\* GetChildren.applyRowColor(rows): rows 0, 2, .. get the odd color, rows 1, 3, ..
\* the even color; useAlternateBackColors and InReportView() are True
RECURSIVE applyRowColor(_, _, _)
applyRowColor(catalogue, rows, index) ==
  IF rows = <<>> THEN catalogue
  ELSE applyRowColor(
         [catalogue EXCEPT ![Head(rows)] =
             IF index % 2 = 1 THEN evenRowsBackColor ELSE oddRowsBackColor],
         Tail(rows), index + 1)

\* GetChildren(root) with groups: applyGroupColor(group, rowList) for each group
\* that is not skipped; groupBackColor is None, so only the rows are cached
RECURSIVE applyGroupColors(_, _)
applyGroupColors(catalogue, grps) ==
  IF grps = <<>> THEN catalogue
  ELSE applyGroupColors(
         applyRowColor(catalogue, applyRowFilter(Head(grps).modelObjects), 0),
         Tail(grps))

\* what self.colorCatalogue is after the view has called GetChildren(root)
GetChildrenColors(catalogue) ==
  IF showGroups THEN applyGroupColors(catalogue, RootGroups)
  ELSE applyRowColor(catalogue, applyRowFilter(modelObjects), 0)

\* the color functions an application installs: none, one that returns yellow for
\* every cell, one that returns None, one that raises
ColorFunctions == {"None", "yellow", "returnsNone", "raises"}

\* "color = function(node, column)", None (NoColor here) when the call raised
FunctionColor(fn) == IF fn = "yellow" THEN Colour("yellow") ELSE NoColor

\* GetAttr.applyColor(color): the background it sets on the attribute
applyColor(color, item) ==
  IF ~color.pair THEN color.a
  ELSE LET odd == item.k = "group" \/ colorCatalogue[item.obj] = NoColor
                  \/ colorCatalogue[item.obj] = oddRowsBackColor
       IN IF odd THEN color.a ELSE color.b

\* a resolution that asks the cell, the column and the row before the function
RowLevelCellFirst(item, column) ==
  IF colorOverride_cell[<<item.obj, column>>] # NoColor THEN "cell"
  ELSE IF colorOverride_column[column] # NoColor THEN "column"
  ELSE IF colorOverride_row[item.obj] # NoColor THEN "row"
  ELSE IF colorOverride_function # "None"
          /\ FunctionColor(colorOverride_function) # NoColor THEN "function"
  ELSE IF sortCounter # NoCounter THEN "sort"
  ELSE IF colorCatalogue[item.obj] # NoColor THEN "catalogue"
  ELSE "none"

\* a resolution that asks the column before the cell
RowLevelColumnFirst(item, column) ==
  IF colorOverride_function # "None"
     /\ FunctionColor(colorOverride_function) # NoColor THEN "function"
  ELSE IF colorOverride_column[column] # NoColor THEN "column"
  ELSE IF colorOverride_cell[<<item.obj, column>>] # NoColor THEN "cell"
  ELSE IF colorOverride_row[item.obj] # NoColor THEN "row"
  ELSE IF sortCounter # NoCounter THEN "sort"
  ELSE IF colorCatalogue[item.obj] # NoColor THEN "catalogue"
  ELSE "none"

\* GetAttr for a plain row: the first of its "if"s that holds
RowLevel(item, column) ==
  IF colorOverride_function # "None"
     /\ FunctionColor(colorOverride_function) # NoColor THEN "function"
  ELSE IF colorOverride_cell[<<item.obj, column>>] # NoColor THEN "cell"
  ELSE IF colorOverride_column[column] # NoColor THEN "column"
  ELSE IF colorOverride_row[item.obj] # NoColor THEN "row"
  ELSE IF sortCounter # NoCounter THEN "sort"
  ELSE IF colorCatalogue[item.obj] # NoColor THEN "catalogue"
  ELSE "none"

\* "if (node not in self.sort_colorCatalogue)": the catalogue after the assignment
SortColorAssigned(item) ==
  IF sort_colorCatalogue[item.obj] # NoColor THEN sort_colorCatalogue
  ELSE [sort_colorCatalogue EXCEPT ![item.obj] =
           IF sortCounter % 2 = 1 THEN evenRowsBackColor ELSE oddRowsBackColor]

\* what GetAttr did to the attribute: the background color it set ("" if none),
\* whether it set the bold and italic of the group font, whether it set the
\* group font's text color, and whether it returned True
Attr(background, groupFont, colour, returned) ==
  [background |-> background, groupFont |-> groupFont, colour |-> colour,
   returned |-> returned]

\* NormalListModel.GetAttr(item, column, attribute); rowFormatter is None
GetAttr(item, column) ==
  IF item.k = "group"
  THEN IF colorOverride_groupFunction # "None"
          /\ FunctionColor(colorOverride_groupFunction) # NoColor
       THEN Attr(applyColor(FunctionColor(colorOverride_groupFunction), item),
                 TRUE, FALSE, TRUE)
       ELSE Attr("", TRUE, TRUE, TRUE)
  ELSE LET level == RowLevel(item, column)
       IN IF level = "function"
          THEN Attr(applyColor(FunctionColor(colorOverride_function), item),
                    FALSE, FALSE, TRUE)
          ELSE IF level = "cell"
          THEN Attr(applyColor(colorOverride_cell[<<item.obj, column>>], item),
                    FALSE, FALSE, TRUE)
          ELSE IF level = "column"
          THEN Attr(applyColor(colorOverride_column[column], item), FALSE, FALSE, TRUE)
          ELSE IF level = "row"
          THEN Attr(applyColor(colorOverride_row[item.obj], item), FALSE, FALSE, TRUE)
          ELSE IF level = "sort"
          THEN Attr(applyColor(SortColorAssigned(item)[item.obj], item),
                    FALSE, FALSE, TRUE)
          ELSE IF level = "catalogue"
          THEN Attr(applyColor(colorCatalogue[item.obj], item), FALSE, FALSE, TRUE)
          ELSE Attr("", FALSE, FALSE, FALSE)

\* the colors, objects and columns handed to the Set...Colour methods
OverrideObjects == {"o1"}
OverrideColumns == {PrimaryColumn}
CellColours == {NoColor, Colour("red")}
ColumnColours == {NoColor, Colour("blue")}
RowColours == {NoColor, Colour("green"), ColourPair("green", "dark green")}
GroupFunctions == {"None", "yellow"}
\* what the handlers of the SortingEvent did with it
Decisions == {"none", "veto", "handled"}

\* a GetAttr or Resort call and what it did; prevCounter and prevCatalogue are
\* sortCounter and sort_colorCatalogue as the call found them
AttrCalled(item, column, attr) ==
  [made |-> TRUE, op |-> "GetAttr", item |-> item, column |-> column, attr |-> attr,
   ignoreSort |-> FALSE, decision |-> "none", sent |-> FALSE, delegated |-> FALSE,
   prevCounter |-> sortCounter, prevCatalogue |-> sort_colorCatalogue]
ResortCalled(ignoreSort, decision, sent, delegated) ==
  [made |-> TRUE, op |-> "Resort", item |-> NullItem, column |-> NoColumn,
   attr |-> Attr("", FALSE, FALSE, FALSE),
   ignoreSort |-> ignoreSort, decision |-> decision, sent |-> sent,
   delegated |-> delegated,
   prevCounter |-> sortCounter, prevCatalogue |-> sort_colorCatalogue]

\* A DataObjectListView constructed with or without groups, after
\* SetObjects(modelObjects): the view has called GetChildren(root), which cached the
\* alternating row colors
InitAttr ==
  /\ kind = DATA
  /\ showGroups \in BOOLEAN
  /\ modelObjects \in UNION {[1..m -> {"o1", "o2"}] : m \in 1..MaxColoured}
  /\ emptyGroups = <<>>
  /\ showEmptyGroups = FALSE
  /\ showItemCounts = TRUE
  /\ filter = NoFilter
  /\ useInitialLetter = FALSE
  /\ sortColumn = NoColumn
  /\ sortAscending = TRUE
  /\ groups = IF showGroups
              THEN DataBuildGroups(modelObjects, PrimaryColumn, useInitialLetter,
                                   emptyGroups, showItemCounts)
              ELSE <<>>
  /\ dvTree = ClearedTree(showGroups, groups, filter, emptyGroups)
  /\ dvExpanded = {}
  /\ last = Plain
  /\ colorOverride_cell = [c \in Objects \X Columns |-> NoColor]
  /\ colorOverride_column = [c \in Columns |-> NoColor]
  /\ colorOverride_row = [o \in Objects |-> NoColor]
  /\ colorOverride_function = "None"
  /\ colorOverride_groupFunction = "None"
  /\ colorCatalogue = GetChildrenColors([o \in Objects |-> NoColor])
  /\ sortCounter = NoCounter
  /\ sort_colorCatalogue = [o \in Objects |-> NoColor]
  /\ modelCall = [made |-> FALSE]
  /\ SortIdle
  /\ CompareIdle
  /\ NavIdle
  /\ MungeIdle
  /\ FailIdle
  /\ UndoIdle

\* self.model.Cleared(): the view drops its tree and calls GetChildren(root) again;
\* the attributes it was given before are gone with the tree
AttrCleared ==
  /\ colorCatalogue' = GetChildrenColors(colorCatalogue)
  /\ modelCall' = [made |-> FALSE]
  /\ ViewCleared(showGroups, groups)
  /\ UNCHANGED <<kind, showEmptyGroups, modelObjects, groups, showGroups, emptyGroups, showItemCounts,
                 filter, useInitialLetter, sortColumn, sortAscending, last>>

\* DataObjectListView.SetRowColour(modelObject, color); color None is NoColor
SetRowColour(modelObject, color) ==
  /\ colorOverride_row' = [colorOverride_row EXCEPT ![modelObject] = color]
  /\ AttrCleared
  /\ UNCHANGED <<colorOverride_cell, colorOverride_column, colorOverride_function,
                 colorOverride_groupFunction, sortCounter, sort_colorCatalogue>>

\* DataObjectListView.SetColumnColour(column, color)
SetColumnColour(column, color) ==
  /\ colorOverride_column' = [colorOverride_column EXCEPT ![column] = color]
  /\ AttrCleared
  /\ UNCHANGED <<colorOverride_cell, colorOverride_row, colorOverride_function,
                 colorOverride_groupFunction, sortCounter, sort_colorCatalogue>>

\* DataObjectListView.SetCellColour(modelObject, column, color)
SetCellColour(modelObject, column, color) ==
  /\ colorOverride_cell' = [colorOverride_cell EXCEPT ![<<modelObject, column>>] = color]
  /\ AttrCleared
  /\ UNCHANGED <<colorOverride_column, colorOverride_row, colorOverride_function,
                 colorOverride_groupFunction, sortCounter, sort_colorCatalogue>>

\* DataObjectListView.SetColorFunction(function)
SetColorFunction(function) ==
  /\ colorOverride_function' = function
  /\ AttrCleared
  /\ UNCHANGED <<colorOverride_cell, colorOverride_column, colorOverride_row,
                 colorOverride_groupFunction, sortCounter, sort_colorCatalogue>>

\* DataObjectListView.SetColorGroupFunction(function)
SetColorGroupFunction(function) ==
  /\ colorOverride_groupFunction' = function
  /\ AttrCleared
  /\ UNCHANGED <<colorOverride_cell, colorOverride_column, colorOverride_row,
                 colorOverride_function, sortCounter, sort_colorCatalogue>>

\* the view asks for the attributes of a cell: NormalListModel.GetAttr
GetAttrCall(item, column) ==
  /\ modelCall' = AttrCalled(item, column, GetAttr(item, column))
  /\ IF item.k = "row" /\ RowLevel(item, column) = "sort"
     THEN /\ sort_colorCatalogue' = SortColorAssigned(item)
          /\ sortCounter' = IF sort_colorCatalogue[item.obj] = NoColor
                            THEN sortCounter + 1 ELSE sortCounter
     ELSE UNCHANGED <<sortCounter, sort_colorCatalogue>>
  /\ UNCHANGED <<ctlVars, colorOverride_cell, colorOverride_column, colorOverride_row,
                 colorOverride_function, colorOverride_groupFunction, colorCatalogue>>

\* a Resort that resets the colors and sorts whatever the handlers decided
ResortCallRegardless(ignoreSort, decision) ==
  /\ modelCall' = ResortCalled(ignoreSort, decision, ~ignoreSort, ~ignoreSort)
  /\ IF ignoreSort THEN UNCHANGED <<sortCounter, sort_colorCatalogue>>
     ELSE /\ sortCounter' = 0
          /\ sort_colorCatalogue' = [o \in Objects |-> NoColor]
  /\ UNCHANGED <<ctlVars, colorOverride_cell, colorOverride_column, colorOverride_row,
                 colorOverride_function, colorOverride_groupFunction, colorCatalogue>>

\* NormalListModel.Resort(); ignoreSort is self.olv._paste_ignoreSort, which is
\* True while a paste is writing a cell, decision is what the handlers of the
\* SortingEvent did with it
ResortCall(ignoreSort, decision) ==
  /\ IF ignoreSort
     THEN /\ modelCall' = ResortCalled(TRUE, decision, FALSE, FALSE)
          /\ UNCHANGED <<sortCounter, sort_colorCatalogue>>
     ELSE IF decision # "none"
     THEN /\ modelCall' = ResortCalled(FALSE, decision, TRUE, FALSE)
          /\ UNCHANGED <<sortCounter, sort_colorCatalogue>>
     ELSE /\ modelCall' = ResortCalled(FALSE, decision, TRUE, TRUE)
          /\ sortCounter' = 0
          /\ sort_colorCatalogue' = [o \in Objects |-> NoColor]
  /\ UNCHANGED <<ctlVars, colorOverride_cell, colorOverride_column, colorOverride_row,
                 colorOverride_function, colorOverride_groupFunction, colorCatalogue>>

\* DataObjectListView._HandleColumnClick on a column sorted descending: the list
\* goes back to unsorted unless the SortingEvent is vetoed or handled
HandleColumnClickUnsort(decision) ==
  /\ sortCounter # NoCounter
  /\ IF decision # "none"
     THEN UNCHANGED <<ctlVars, sortCounter, colorCatalogue, modelCall>>
     ELSE /\ sortCounter' = NoCounter
          /\ AttrCleared
  /\ UNCHANGED <<colorOverride_cell, colorOverride_column, colorOverride_row,
                 colorOverride_function, colorOverride_groupFunction,
                 sort_colorCatalogue>>

\* the rows and groups the view shows
AttrItems ==
  {RowItem(modelObjects[i]) : i \in DOMAIN modelObjects}
     \cup {GroupItem(groups[i].key) : i \in DOMAIN groups}

NextAttr ==
  \/ \E o \in OverrideObjects, color \in RowColours : SetRowColour(o, color)
  \/ \E c \in OverrideColumns, color \in ColumnColours : SetColumnColour(c, color)
  \/ \E o \in OverrideObjects, c \in OverrideColumns, color \in CellColours :
        SetCellColour(o, c, color)
  \/ \E function \in ColorFunctions : SetColorFunction(function)
  \/ \E function \in GroupFunctions : SetColorGroupFunction(function)
  \/ \E item \in AttrItems, column \in Columns : GetAttrCall(item, column)
  \/ \E ignoreSort \in BOOLEAN, decision \in Decisions : ResortCall(ignoreSort, decision)
  \/ \E decision \in Decisions : HandleColumnClickUnsort(decision)

SpecAttr == InitAttr /\ [][NextAttr /\ UNCHANGED <<sortVars, cmpVars, navVars, mungeVars, failVars, undoVars>>]_vars

\* the cell that all four kinds of override are registered for
AllFourApply ==
  /\ modelCall.made /\ modelCall.op = "GetAttr"
  /\ modelCall.item = RowItem("o1") /\ modelCall.column = PrimaryColumn
  /\ colorOverride_cell[<<"o1", PrimaryColumn>>] = Colour("red")
  /\ colorOverride_column[PrimaryColumn] = Colour("blue")
  /\ colorOverride_row["o1"] \in {Colour("green"), ColourPair("green", "dark green")}
  /\ colorOverride_function = "yellow"

PlainRowCall ==
  /\ modelCall.made /\ modelCall.op = "GetAttr" /\ modelCall.item.k = "row"
  /\ colorOverride_function = "None"

\* the override that comes first for the cell of the call in the order cell,
\* column, row: NoColor when none of the three is registered
FirstOverride ==
  LET o == modelCall.item.obj
      c == modelCall.column
  IN IF colorOverride_cell[<<o, c>>] # NoColor THEN colorOverride_cell[<<o, c>>]
     ELSE IF colorOverride_column[c] # NoColor THEN colorOverride_column[c]
     ELSE colorOverride_row[o]

\* C16 as stated: with no color function installed, GetAttr for a plain row applies
\* the first registered of cell override, column override, row override, and failing
\* all three the alternating color that GetChildren cached for the row.
C16_CachedColorLast ==
  PlainRowCall =>
     IF FirstOverride # NoColor
     THEN modelCall.attr.background \in {FirstOverride.a, FirstOverride.b}
     ELSE modelCall.attr.background = colorCatalogue[modelCall.item.obj].a

\* C16: with no color function installed, GetAttr for a plain row applies the first
\* registered of cell override, column override, row override; failing all three,
\* after a Resort (sortCounter is a number) the alternating color the row was given
\* when GetAttr first reached it since that Resort -- odd for the 1st, 3rd, .. row
\* reached, even for the 2nd, 4th, .. -- and otherwise the alternating color that
\* GetChildren cached for the row.
C16_OverridesThenAlternating ==
  PlainRowCall =>
     LET o == modelCall.item.obj
     IN IF FirstOverride # NoColor
        THEN modelCall.attr.background \in {FirstOverride.a, FirstOverride.b}
        ELSE IF modelCall.prevCounter # NoCounter
        THEN modelCall.attr.background =
               IF modelCall.prevCatalogue[o] # NoColor THEN modelCall.prevCatalogue[o].a
               ELSE IF modelCall.prevCounter % 2 = 1 THEN evenRowsBackColor.a
               ELSE oddRowsBackColor.a
        ELSE modelCall.attr.background = colorCatalogue[o].a

\* o1, o2 listed in this order, so GetChildren cached the even color for o2; after a
\* Resort the view asks for o2 first, which gets the odd color
C16_Witness ==
  /\ PlainRowCall
  /\ modelObjects = <<"o1", "o2">>
  /\ modelCall.item = RowItem("o2")
  /\ FirstOverride = NoColor
  /\ modelCall.prevCounter = 0
  /\ colorCatalogue["o2"] = evenRowsBackColor
  /\ modelCall.attr.background = oddRowsBackColor.a

\* the state right after a Resort call
ResortDone == modelCall.made /\ modelCall.op = "Resort"
\* the cached row colors are as the call found them / are reset
ColorsKept ==
  sortCounter = modelCall.prevCounter /\ sort_colorCatalogue = modelCall.prevCatalogue
ColorsReset ==
  sortCounter = 0 /\ sort_colorCatalogue = [o \in Objects |-> NoColor]
\* what Resort does once the notification is out
AfterNotification ==
  IF modelCall.decision \in {"veto", "handled"}
  THEN ColorsKept /\ ~modelCall.delegated
  ELSE ColorsReset /\ modelCall.delegated

\* C20 as stated: Resort first sends the sorting notification; if the application
\* vetoes it or marks it handled the cached row colors are left unchanged and no
\* sort is delegated, otherwise the cached row colors are reset and the sort is
\* delegated.
C20_NotifiesThenSorts ==
  ResortDone => (modelCall.sent /\ AfterNotification)

\* C20: while a paste is writing a cell (_paste_ignoreSort) Resort returns at once:
\* no notification is sent, the cached row colors are left unchanged and no sort is
\* delegated.  Otherwise it first sends the sorting notification; if the
\* application vetoes it or marks it handled the cached row colors are left
\* unchanged and no sort is delegated, otherwise the cached row colors are reset
\* and the sort is delegated.
C20_ResortUnlessPasting ==
  ResortDone =>
     IF modelCall.ignoreSort
     THEN ~modelCall.sent /\ ColorsKept /\ ~modelCall.delegated
     ELSE modelCall.sent /\ AfterNotification

\* a vetoed Resort after an earlier one had given a row its color
C20_Witness ==
  /\ ResortDone
  /\ ~modelCall.ignoreSort /\ modelCall.decision = "veto"
  /\ modelCall.prevCounter = 1
  /\ sortCounter = 1
  /\ sort_colorCatalogue # [o \in Objects |-> NoColor]
-----------------------------------------------------------------------------
(* ColumnDefn.GetValue and ColumnDefn.SetValue: the munger *)

\* the names the columns use as attribute names and as keys, and the integers
\* they use as indices
Names == {"title", "items"}
Indices == 0 .. 1

\* the values of an aspect; Absent marks a slot the object does not have,
\* NoneValue is Python's None
Values == {"a", "b"}
Absent == "<absent>"
NoneValue == "None"

\* methods an attribute name can resolve to:
\*   "m_returns"   def title(self): return "a"
\*   "m_needsArg"  def title(self, value): return None
\*   "m_raises"    def title(self): raise ValueError
\*   "dict.items"  the built-in dict.items, which returns a view of the items
Methods == {"m_returns", "m_needsArg", "m_raises", "dict.items"}

\* the callables a column can have as getter or setter:
\*   "titleOf"   lambda modelObject: modelObject.title
\*   "setTitle"  lambda modelObject, value: setattr(modelObject, "title", value)
Functions == {"titleOf", "setTitle"}

\* a model object: an instance with attributes ("object"), a dict, a list, or
\* an instance of a dict subclass that also has attributes ("hybrid")
ModelObject(k, attrs, strItems, intItems) ==
  [made |-> TRUE, kind |-> k, attrs |-> attrs, strItems |-> strItems,
   intItems |-> intItems]

NoAttrs == [n \in Names |-> Absent]
NoInts == [i \in Indices |-> Absent]
\* the attributes every dict has: its methods
DictAttrs == [n \in Names |-> IF n = "items" THEN "dict.items" ELSE Absent]

\* what a call gives: a value (raised = ""), or the exception it raised
Gave(v) == [raised |-> "", value |-> v]
Threw(e) == [raised |-> e, value |-> NoneValue]

\* attr(): attr is the value of an attribute
Call0(attr) ==
  CASE attr = "m_returns" -> Gave("a")
    [] attr = "m_raises" -> Threw("ValueError")
    [] attr = "dict.items" -> Gave("<dict_items>")
    [] OTHER -> Threw("TypeError")

\* attr(value)
Call1(attr, value) ==
  IF attr = "m_needsArg" THEN Gave(NoneValue) ELSE Threw("TypeError")

\* munger(modelObject)
CallGetter(munger, modelObject) ==
  IF munger.form = "Function" /\ munger.name = "titleOf"
    THEN IF modelObject.attrs["title"] # Absent
           THEN Gave(modelObject.attrs["title"])
           ELSE Threw("AttributeError")
    ELSE Threw("TypeError")

\* modelObject[munger]
GetItem(modelObject, munger) ==
  CASE munger.form = "Name" /\ modelObject.kind \in {"dict", "hybrid"} ->
         IF modelObject.strItems[munger.name] # Absent
           THEN Gave(modelObject.strItems[munger.name]) ELSE Threw("KeyError")
    [] munger.form = "Index" /\ modelObject.kind \in {"dict", "hybrid"} ->
         IF modelObject.intItems[munger.index] # Absent
           THEN Gave(modelObject.intItems[munger.index]) ELSE Threw("KeyError")
    [] munger.form = "Index" /\ modelObject.kind = "list" ->
         IF modelObject.intItems[munger.index] # Absent
           THEN Gave(modelObject.intItems[munger.index]) ELSE Threw("IndexError")
    [] munger.form = "Function" /\ modelObject.kind \in {"dict", "hybrid"} ->
         Threw("KeyError")
    [] OTHER -> Threw("TypeError")

\* what GetValue gives: the outcome and the slot it read ("attribute", "method",
\* "call", "index" or "none")
Munged(outcome, via) ==
  [raised |-> outcome.raised, value |-> outcome.value, via |-> via]

\* ColumnDefn._Munge(modelObject, munger)
Munge(modelObject, munger) ==
  IF munger.form = "None" THEN Munged(Gave(NoneValue), "none")
  ELSE
    LET \* getattr(modelObject, munger, None); a TypeError when munger is not a string
        attr == IF munger.form = "Name" THEN modelObject.attrs[munger.name]
                ELSE Absent
        called == CallGetter(munger, modelObject)
        item == GetItem(modelObject, munger)
    IN  IF attr # Absent /\ attr # NoneValue
          THEN CASE Call0(attr).raised = "" -> Munged(Call0(attr), "method")
                 [] Call0(attr).raised = "TypeError" -> Munged(Gave(attr), "attribute")
                 [] OTHER -> Munged(Call0(attr), "method")
        ELSE IF called.raised = "" THEN Munged(called, "call")
        ELSE IF called.raised # "TypeError" THEN Munged(called, "call")
        ELSE IF item.raised = "" THEN Munged(item, "index")
        ELSE Munged(Gave(NoneValue), "none")

\* ColumnDefn.GetValue(modelObject)
ColumnGetValue(modelObject) == Munge(modelObject, valueGetter)

\* what SetValue gives: the exception it raised if any, the model object after
\* it, and the slot it wrote ("index", "attribute", "method", "call" or "none")
WasSet(raised, modelObject, via) ==
  [raised |-> raised, object |-> modelObject, via |-> via]

\* modelObject[munger] = value succeeds
CanSetItem(modelObject, munger) ==
  \/ modelObject.kind \in {"dict", "hybrid"}
  \/ /\ modelObject.kind = "list"
     /\ munger.form = "Index"
     /\ modelObject.intItems[munger.index] # Absent

\* modelObject[munger] = value
SetItem(modelObject, munger, value) ==
  IF munger.form = "Name"
    THEN [modelObject EXCEPT !.strItems[munger.name] = value]
    ELSE [modelObject EXCEPT !.intItems[munger.index] = value]

\* munger(modelObject, value)
CallSetter(munger, modelObject, value) ==
  IF munger.name = "setTitle"
    THEN IF modelObject.kind \in {"object", "hybrid"}
           THEN WasSet("", [modelObject EXCEPT !.attrs["title"] = value], "call")
           ELSE WasSet("AttributeError", modelObject, "call")
    ELSE WasSet("TypeError", modelObject, "call")

\* ColumnDefn._SetValueUsingMunger(modelObject, value, munger, shouldInvokeCallable)
SetValueUsingMunger(modelObject, value, munger, shouldInvokeCallable) ==
  IF munger.form = "None" THEN WasSet("", modelObject, "none")
  ELSE IF munger.form = "Function"
    THEN IF shouldInvokeCallable THEN CallSetter(munger, modelObject, value)
         ELSE WasSet("", modelObject, "none")
  ELSE IF CanSetItem(modelObject, munger)
    THEN WasSet("", SetItem(modelObject, munger, value), "index")
  \* getattr(modelObject, munger): a TypeError when munger is not a string
  ELSE IF munger.form = "Index" THEN WasSet("", modelObject, "none")
  ELSE LET attr == modelObject.attrs[munger.name]
       IN  IF attr = Absent THEN WasSet("", modelObject, "none")
           ELSE IF attr \in Methods
             THEN IF shouldInvokeCallable
                    THEN WasSet(Call1(attr, value).raised, modelObject, "method")
                    ELSE WasSet("", modelObject, "none")
           \* setattr(modelObject, munger, value), whatever it raises is dropped
           ELSE IF modelObject.kind \in {"object", "hybrid"}
             THEN WasSet("", [modelObject EXCEPT !.attrs[munger.name] = value],
                         "attribute")
           ELSE WasSet("", modelObject, "none")

\* ColumnDefn.SetValue(modelObject, value)
ColumnSetValue(modelObject, value) ==
  IF valueSetter.form = "None"
    THEN SetValueUsingMunger(modelObject, value, valueGetter, FALSE)
    ELSE SetValueUsingMunger(modelObject, value, valueSetter, TRUE)

\* the getters and setters of the columns
Mungers ==
  {NoMunger} \cup {Name(n) : n \in Names} \cup {Index(i) : i \in Indices}
  \cup {Function(f) : f \in Functions}

\* the model objects the columns are used on
ModelObjects ==
  {ModelObject("object", [NoAttrs EXCEPT !["title"] = t], NoAttrs, NoInts) :
     t \in {"a", Absent, "m_returns", "m_needsArg", "m_raises"}}
  \cup {ModelObject("dict", DictAttrs,
                    [n \in Names |-> IF n = "title" THEN t ELSE i],
                    [NoInts EXCEPT ![0] = z]) :
          t \in {"a", Absent}, i \in {"a", Absent}, z \in {"a", Absent}}
  \cup {ModelObject("list", NoAttrs, NoAttrs, [NoInts EXCEPT ![0] = z]) :
          z \in {"a", Absent}}
  \cup {ModelObject("hybrid", [DictAttrs EXCEPT !["title"] = t],
                    [NoAttrs EXCEPT !["title"] = i], NoInts) :
          t \in {"a", Absent}, i \in {"a", Absent}}

\* a SetValue or GetValue call: what it was made on, what it gave, and, for a
\* GetValue, whether it follows a SetValue that returned, and of which value
MungeCalled(op, before, value, raised, result, via, afterSet, target, setValue, setVia) ==
  [made |-> TRUE, op |-> op, before |-> before, value |-> value,
   raised |-> raised, result |-> result, via |-> via, afterSet |-> afterSet,
   target |-> target, setValue |-> setValue, setVia |-> setVia]

\* a column with its getter and its setter, and the model object of a row
InitMunge ==
  /\ ControlIdle
  /\ SortIdle
  /\ CompareIdle
  /\ NavIdle
  /\ AttrIdle
  /\ FailIdle
  /\ UndoIdle
  /\ mungedObject \in ModelObjects
  /\ valueGetter \in Mungers
  /\ valueSetter \in Mungers
  /\ mungeCall = [made |-> FALSE]

\* ColumnDefn.SetValue(modelObject, value)
SetValueCall(value) ==
  \E set \in {ColumnSetValue(mungedObject, value)} :
    /\ mungedObject' = set.object
    /\ mungeCall' = MungeCalled("SetValue", mungedObject, value, set.raised,
                                NoneValue, set.via, FALSE, mungedObject, value,
                                set.via)
    /\ UNCHANGED <<valueGetter, valueSetter>>

\* ColumnDefn.GetValue(modelObject)
GetValueCall ==
  \E got \in {ColumnGetValue(mungedObject)} :
    /\ mungeCall' =
         IF mungeCall.made /\ mungeCall.op = "SetValue" /\ mungeCall.raised = ""
           THEN MungeCalled("GetValue", mungedObject, NoneValue, got.raised,
                            got.value, got.via, TRUE, mungeCall.before,
                            mungeCall.value, mungeCall.via)
           ELSE MungeCalled("GetValue", mungedObject, NoneValue, got.raised,
                            got.value, got.via, FALSE, mungedObject, NoneValue,
                            "none")
    /\ UNCHANGED <<mungedObject, valueGetter, valueSetter>>

NextMunge ==
  \/ \E value \in Values : SetValueCall(value)
  \/ GetValueCall

SpecMunge ==
  InitMunge /\ [][NextMunge /\ UNCHANGED <<ctlVars, sortVars, cmpVars, navVars, attrVars, failVars, undoVars>>]_vars

\* the munger names a slot the model object has and that holds a value
HasSlot(modelObject, munger) ==
  \/ /\ munger.form = "Name"
     /\ \/ modelObject.attrs[munger.name] \in Values
        \/ modelObject.strItems[munger.name] \in Values
  \/ /\ munger.form = "Index"
     /\ modelObject.intItems[munger.index] \in Values

\* the last call is a GetValue(modelObject) that follows a SetValue(modelObject, x)
GetAfterSet ==
  /\ mungeCall.made
  /\ mungeCall.op = "GetValue"
  /\ mungeCall.afterSet

\* C17: for a column whose getter and setter name the same attribute, key or
\* index, which the model object has, SetValue(modelObject, x) followed by
\* GetValue(modelObject) returns x, whatever the kind of the model object.
C17_RoundTrip ==
  ( /\ GetAfterSet
    /\ valueGetter.form \in {"Name", "Index"}
    /\ valueSetter = valueGetter
    /\ HasSlot(mungeCall.target, valueGetter) )
  => /\ mungeCall.raised = ""
     /\ mungeCall.result = mungeCall.setValue

\* C18: SetValue resolves its accessor in the order GetValue does, so that when
\* SetValue with an accessor wrote a slot of the model object (an attribute or
\* an indexed item), GetValue with the same accessor reads that slot.
C18_WritesWhatGetValueReads ==
  ( /\ GetAfterSet
    /\ valueSetter \in {valueGetter, NoMunger}
    /\ mungeCall.setVia \in {"attribute", "index"} )
  => mungeCall.via = mungeCall.setVia

\* C19: GetValue never propagates an exception: whatever the model object and
\* the getter (a callable, a name, an index), the call returns, giving the
\* value it resolved or None.
C19_GetValueNeverRaises ==
  (mungeCall.made /\ mungeCall.op = "GetValue") => mungeCall.raised = ""

-----------------------------------------------------------------------------
(* AddObjects and RemoveObjects of DataObjectListView when the rebuild of the *)
(* groups raises                                                             *)

\* _BuildGroups raises on the list: the group key of one of its objects cannot
\* be computed (the getter raises) or cannot be a key of groupMap (a list)
BuildGroupsRaises(objs) ==
  \E i \in DOMAIN objs : objs[i] \in keyRaises

\* an AddObjects or RemoveObjects call: whether it raised, and the collection and
\* the groups it started from
RebuildCalled(op, raised) ==
  [made |-> TRUE, op |-> op, raised |-> raised, modelObjects |-> modelObjects,
   groups |-> groups]

\* a DataObjectListView constructed with or without groups; for some of the
\* application's objects the group key cannot be computed
InitFail ==
  /\ kind = DATA
  /\ modelObjects = <<>>
  /\ groups = <<>>
  /\ showGroups \in BOOLEAN
  /\ emptyGroups = <<>>
  /\ showEmptyGroups = FALSE
  /\ showItemCounts = TRUE
  /\ filter = NoFilter
  /\ useInitialLetter \in BOOLEAN
  /\ sortColumn = NoColumn
  /\ sortAscending = TRUE
  /\ dvTree = {}
  /\ dvExpanded = {}
  /\ last = Plain
  /\ SortIdle
  /\ CompareIdle
  /\ NavIdle
  /\ AttrIdle
  /\ MungeIdle
  /\ UndoIdle
  /\ keyRaises \in SUBSET Objects
  /\ rebuildCall = [made |-> FALSE]

\* self.modelObjects is objs by now; RebuildGroups raises out of the try block,
\* "finally: self.Thaw()" runs and the exception leaves the method
RebuildRaised(op, objs) ==
  /\ modelObjects' = objs
  /\ last' = Raised
  /\ rebuildCall' = RebuildCalled(op, TRUE)
  /\ UNCHANGED <<kind, showEmptyGroups, groups, showGroups, emptyGroups, showItemCounts, filter,
                 useInitialLetter, sortColumn, sortAscending, dvTree, dvExpanded,
                 keyRaises>>

\* DataObjectListView.AddObjects(modelObjects, preserveExpansion)
AddObjectsCall(objs, preserveExpansion) ==
  IF showGroups /\ BuildGroupsRaises(modelObjects \o objs)
    THEN /\ kind = DATA
         /\ Len(modelObjects) + Len(objs) <= MaxObjects
         /\ RebuildRaised("AddObjects", modelObjects \o objs)
    ELSE /\ DOLV_AddObjects(objs, preserveExpansion)
         /\ rebuildCall' = RebuildCalled("AddObjects", FALSE)
         /\ UNCHANGED keyRaises

\* DataObjectListView.RemoveObjects(modelObjects, preserveExpansion)
RemoveObjectsCall(objs, preserveExpansion) ==
  IF showGroups /\ BuildGroupsRaises(RemoveEach(modelObjects, objs))
    THEN /\ kind = DATA
         /\ RebuildRaised("RemoveObjects", RemoveEach(modelObjects, objs))
    ELSE /\ DOLV_RemoveObjects(objs, preserveExpansion)
         /\ rebuildCall' = RebuildCalled("RemoveObjects", FALSE)
         /\ UNCHANGED keyRaises

NextFail ==
  \/ \E objs \in NonEmptyLists(MaxBatch), p \in BOOLEAN : AddObjectsCall(objs, p)
  \/ \E objs \in NonEmptyLists(MaxBatch), p \in BOOLEAN : RemoveObjectsCall(objs, p)

SpecFail ==
  InitFail /\ [][NextFail /\ UNCHANGED <<sortVars, cmpVars, navVars, attrVars, mungeVars, undoVars>>]_vars

\* C23: when the rebuild of the groups raises during AddObjects or RemoveObjects,
\* the call leaves the object collection and the group list exactly as they were
\* before it.
C23_AbortKeepsState ==
  (rebuildCall.made /\ rebuildCall.raised) =>
     /\ modelObjects = rebuildCall.modelObjects
     /\ groups = rebuildCall.groups

-----------------------------------------------------------------------------
(* Editing, pasting, Undo and Redo of DataObjectListView                     *)

\* the largest undoCap the control is constructed with
MaxCap == 2

\* SetUndoHistory and SetRedoHistory are followed while the two histories
\* together hold no more actions than this
MaxHistory == 2

\* what happens at one cell of a paste, an undo or a redo: the handler of the
\* notification vetoes it, or the value is changed ("ok"), or changing the value
\* raises
CellOutcomes == {"ok", "veto", "raises"}

\* how an edit or a paste is tracked: _TrackAction is not called (track False),
\* the handler of UndoTrackEvent vetoes it, or the action is appended
Trackings == {"untracked", "veto", "ok"}

\* an entry of a paste's log, [column, oldValue, value] under its row
Change(cell, oldValue, newValue) ==
  [cell |-> cell, oldValue |-> oldValue, newValue |-> newValue]

\* UndoEdit(olv, modelObject, column, oldValue, newValue), UndoPaste(olv, log)
UndoEdit(cell, oldValue, newValue) ==
  [type |-> "UndoEdit", log |-> <<Change(cell, oldValue, newValue)>>]
UndoPaste(log) == [type |-> "UndoPaste", log |-> log]

\* the histories and the last notifications about them
Histories(undo, redo, undoEvent, redoEvent) ==
  [undoHistory |-> undo, redoHistory |-> redo, lastUndoEvent |-> undoEvent,
   lastRedoEvent |-> redoEvent]
Now == Histories(undoHistory, redoHistory, lastUndoEvent, lastRedoEvent)

\* a _TrackAction that never discards the oldest action
TrackActionUncapped(h, action, tracking) ==
  IF tracking # "ok" THEN h
  ELSE Histories(Append(h.undoHistory, action), <<>>,
                 IF h.undoHistory = <<>> THEN "First" ELSE h.lastUndoEvent,
                 IF h.redoHistory # <<>> THEN "Empty" ELSE h.lastRedoEvent)

\* DataObjectListView._TrackAction(action)
TrackAction(h, action, tracking) ==
  IF tracking # "ok" THEN h
  ELSE LET kept == IF h.undoHistory # <<>> /\ Len(h.undoHistory) >= undoCap
                   THEN Tail(h.undoHistory) ELSE h.undoHistory
       IN Histories(Append(kept, action), <<>>,
                    IF h.undoHistory = <<>> THEN "First" ELSE h.lastUndoEvent,
                    IF h.redoHistory # <<>> THEN "Empty" ELSE h.lastRedoEvent)

\* what a loop over cells has done so far: the cell values, the log of the
\* changes applied, the number of cells written, the number of times the view
\* was told of a changed value (each time it may ask for a Resort), and whether
\* an exception ended the loop
Written(cells, applied, written, requests, raised) ==
  [cells |-> cells, applied |-> applied, written |-> written,
   requests |-> requests, raised |-> raised]

\* the loops of pasteList (tryValue per cell) and of UndoPaste.undo: writes is
\* the sequence of [cell, value] to write, outcomes what happens at each
RECURSIVE WriteCells(_, _, _)
WriteCells(writes, outcomes, done) ==
  IF writes = <<>> \/ done.raised THEN done
  ELSE LET w == Head(writes)
           o == Head(outcomes)
       IN WriteCells(Tail(writes), Tail(outcomes),
            CASE o = "veto" -> done
              [] o = "raises" -> [done EXCEPT !.raised = TRUE]
              [] OTHER ->
                   Written([done.cells EXCEPT ![w.cell] = w.value],
                           Append(done.applied,
                                  Change(w.cell, done.cells[w.cell], w.value)),
                           done.written + 1, done.requests + 1, FALSE))

\* every notification of the loop was vetoed
AllVetoed(outcomes) ==
  outcomes # <<>> /\ \A i \in DOMAIN outcomes : outcomes[i] = "veto"

\* what an edit, a paste, an Undo or a Redo did:
\*   vetoed     every notification about a cell was vetoed
\*   raised     an exception left the operation
\*   tracked    _TrackAction appended an action
\*   discarded  _TrackAction deleted the oldest action of a full undo history
\*   written    the number of cells written
\*   inLoop     the Resorts performed (not ignored) while the cells were written
\*   after      the Resorts performed after the last cell was written
UndoCalled(op, type, vetoed, raised, tracking, written, inLoop, after) ==
  [made |-> TRUE, op |-> op, type |-> type, vetoed |-> vetoed,
   raised |-> raised, tracked |-> tracking = "ok",
   discarded |-> /\ tracking = "ok"
                 /\ undoHistory # <<>>
                 /\ Len(undoHistory) >= undoCap,
   written |-> written, inLoop |-> inLoop, after |-> after]

SetHistories(h) ==
  /\ undoHistory' = h.undoHistory
  /\ redoHistory' = h.redoHistory
  /\ lastUndoEvent' = h.lastUndoEvent
  /\ lastRedoEvent' = h.lastRedoEvent

\* a DataObjectListView with its undoCap, two cells, nothing done yet
InitUndo ==
  /\ ControlIdle
  /\ SortIdle
  /\ CompareIdle
  /\ NavIdle
  /\ AttrIdle
  /\ MungeIdle
  /\ FailIdle
  /\ cellValues = [c \in Cells |-> "a"]
  /\ undoHistory = <<>>
  /\ redoHistory = <<>>
  /\ undoCap \in 1 .. MaxCap
  /\ paste_ignoreSort = FALSE
  /\ lastUndoEvent = "none"
  /\ lastRedoEvent = "none"
  /\ historiesSet = FALSE
  /\ undoCall = [made |-> FALSE]

\* the user edits a cell: _RelayEditCellFinishing tracks the edit unless the
\* finishing event was vetoed, then the view stores the value
EditCell(cell, value, allowed, tracking) ==
  /\ IF allowed
       THEN /\ SetHistories(TrackAction(Now, UndoEdit(cell, cellValues[cell], value),
                                        tracking))
            /\ cellValues' = [cellValues EXCEPT ![cell] = value]
       ELSE UNCHANGED <<cellValues, undoHistory, redoHistory, lastUndoEvent,
                        lastRedoEvent>>
  /\ undoCall' = UndoCalled("Edit", "UndoEdit", ~allowed, FALSE,
                            IF allowed THEN tracking ELSE "untracked",
                            IF allowed THEN 1 ELSE 0, 0, 0)
  /\ UNCHANGED <<undoCap, paste_ignoreSort, historiesSet>>

\* the cell the user edits
EditedCells == {"c1"}

\* the cells a paste writes to, and the value it writes
PasteTargets == {<<"c1">>, <<"c1", "c2">>}
PasteValue == "b"

\* PasteObjectsFromClipboard(modelObjects, track = tracking is not "untracked")
\* with a copied list: pasteList calls tryValue for each cell; tryValue catches
\* an exception of ChangeValue, writes the old value back and logs nothing
PasteList(targets, value, outcomes, tracking) ==
  \E lp \in {WriteCells([i \in DOMAIN targets |-> [cell |-> targets[i], value |-> value]],
                        [i \in DOMAIN outcomes |->
                           IF outcomes[i] = "raises" THEN "veto" ELSE outcomes[i]],
                        Written(cellValues, <<>>, 0, 0, FALSE))} :
    /\ cellValues' = lp.cells
    /\ paste_ignoreSort' = FALSE
    /\ SetHistories(TrackAction(Now, UndoPaste(lp.applied), tracking))
    /\ undoCall' = UndoCalled("Paste", "list", AllVetoed(outcomes), lp.raised,
                              tracking, lp.written, 0,
                              IF lp.applied # <<>> THEN 1 ELSE 0)
    /\ UNCHANGED <<undoCap, historiesSet>>

\* PasteObjectsFromClipboard with no copied list and a clipboard text of several
\* columns, entireRow True: pasteSimple calls column.SetValue for each cell
PasteText(targets, value, tracking) ==
  /\ cellValues' = [c \in Cells |->
                      IF \E i \in DOMAIN targets : targets[i] = c THEN value
                      ELSE cellValues[c]]
  /\ SetHistories(TrackAction(Now, UndoPaste(<<>>), tracking))
  /\ undoCall' = UndoCalled("Paste", "text", FALSE, FALSE, tracking,
                            Len(targets), 0, 0)
  /\ UNCHANGED <<undoCap, paste_ignoreSort, historiesSet>>

\* PasteObjectsFromClipboard when the handler of PastingEvent vetoes it
PasteVetoed ==
  /\ undoCall' = UndoCalled("Paste", "vetoed", TRUE, FALSE, "untracked", 0, 0, 0)
  /\ UNCHANGED <<cellValues, undoHistory, redoHistory, undoCap, paste_ignoreSort,
                 lastUndoEvent, lastRedoEvent, historiesSet>>

\* the histories handed to SetUndoHistory / SetRedoHistory
GivenHistories == {<<>>, <<UndoEdit("c1", "a", "b")>>}

\* DataObjectListView.SetUndoHistory(undoHistory)
SetUndoHistory(given) ==
  /\ Len(given) + Len(redoHistory) <= MaxHistory
  /\ undoHistory' = given
  /\ lastUndoEvent' = IF given = <<>>
                      THEN IF undoHistory # <<>> THEN "Empty" ELSE lastUndoEvent
                      ELSE IF undoHistory = <<>> THEN "First" ELSE lastUndoEvent
  /\ historiesSet' = TRUE
  /\ undoCall' = UndoCalled("SetUndoHistory", "", FALSE, FALSE, "untracked", 0, 0, 0)
  /\ UNCHANGED <<cellValues, redoHistory, undoCap, paste_ignoreSort, lastRedoEvent>>

\* DataObjectListView.SetRedoHistory(redoHistory)
SetRedoHistory(given) ==
  /\ Len(given) + Len(undoHistory) <= MaxHistory
  /\ redoHistory' = given
  /\ lastRedoEvent' = IF given = <<>>
                      THEN IF redoHistory # <<>> THEN "Empty" ELSE lastRedoEvent
                      ELSE IF redoHistory = <<>> THEN "First" ELSE lastRedoEvent
  /\ historiesSet' = TRUE
  /\ undoCall' = UndoCalled("SetRedoHistory", "", FALSE, FALSE, "untracked", 0, 0, 0)
  /\ UNCHANGED <<cellValues, undoHistory, undoCap, paste_ignoreSort, lastUndoEvent>>

\* what action.undo(undo) did: the loop over its log, and whether it returned
\* a true value
Undone(loop, success) == [loop |-> loop, success |-> success]

\* an UndoPaste.undo that reports no success when a notification was vetoed
ActionUndoVetoFails(action, undo, outcomes) ==
  LET lp == WriteCells([i \in DOMAIN action.log |->
                          [cell |-> action.log[i].cell,
                           value |-> IF undo THEN action.log[i].oldValue
                                     ELSE action.log[i].newValue]],
                       outcomes, Written(cellValues, <<>>, 0, 0, FALSE))
  IN Undone(lp, ~lp.raised /\ \A i \in DOMAIN outcomes : outcomes[i] # "veto")

\* UndoEdit.undo(undo) and UndoPaste.undo(undo)
ActionUndo(action, undo, outcomes) ==
  LET lp == WriteCells([i \in DOMAIN action.log |->
                          [cell |-> action.log[i].cell,
                           value |-> IF undo THEN action.log[i].oldValue
                                     ELSE action.log[i].newValue]],
                       outcomes, Written(cellValues, <<>>, 0, 0, FALSE))
  IN IF action.type = "UndoEdit"
       THEN Undone(lp, outcomes[1] = "ok")
       ELSE Undone(lp, ~lp.raised)

\* Undo (undo = TRUE) and Redo (undo = FALSE): from is the history the action is
\* popped from, to the one it is pushed on
UndoRedo(undo, outcomes) ==
  LET from == IF undo THEN undoHistory ELSE redoHistory
      to == IF undo THEN redoHistory ELSE undoHistory
      action == from[Len(from)]
      popped == SubSeq(from, 1, Len(from) - 1)
      op == IF undo THEN "Undo" ELSE "Redo"
  IN IF from = <<>>
       THEN /\ outcomes = <<>>
            /\ undoCall' = UndoCalled(op, "", FALSE, FALSE, "untracked", 0, 0, 0)
            /\ UNCHANGED <<cellValues, undoHistory, redoHistory, undoCap,
                           paste_ignoreSort, lastUndoEvent, lastRedoEvent,
                           historiesSet>>
       ELSE /\ DOMAIN outcomes = DOMAIN action.log
            /\ \E did \in {ActionUndo(action, undo, outcomes)} :
                 /\ cellValues' = did.loop.cells
                 /\ paste_ignoreSort' =
                      IF action.type = "UndoPaste" THEN FALSE ELSE paste_ignoreSort
                 /\ undoCall' =
                      UndoCalled(op, action.type, AllVetoed(outcomes),
                                 did.loop.raised, "untracked", did.loop.written,
                                 IF action.type = "UndoPaste" THEN 0
                                 ELSE did.loop.requests,
                                 IF action.type = "UndoPaste" THEN 1 ELSE 0)
                 /\ IF did.loop.raised
                      \* the exception leaves Undo / Redo after the pop
                      THEN SetHistories(IF undo
                             THEN Histories(popped, to, lastUndoEvent, lastRedoEvent)
                             ELSE Histories(to, popped, lastUndoEvent, lastRedoEvent))
                    ELSE IF ~did.success
                      THEN UNCHANGED <<undoHistory, redoHistory, lastUndoEvent,
                                       lastRedoEvent>>
                    ELSE SetHistories(IF undo
                           THEN Histories(popped, Append(to, action),
                                  IF popped = <<>> THEN "Empty" ELSE lastUndoEvent,
                                  IF to = <<>> THEN "First" ELSE lastRedoEvent)
                           ELSE Histories(Append(to, action), popped,
                                  IF to = <<>> THEN "First" ELSE lastUndoEvent,
                                  IF popped = <<>> THEN "Empty" ELSE lastRedoEvent))
            /\ UNCHANGED <<undoCap, historiesSet>>

\* what can happen at the cells of a log of one or two entries
OutcomeLists == UNION {[1 .. n -> CellOutcomes] : n \in 0 .. 2}

\* DataObjectListView.Undo() / Redo()
Undo(outcomes) == UndoRedo(TRUE, outcomes)
Redo(outcomes) == UndoRedo(FALSE, outcomes)

NextUndo ==
  \/ \E cell \in EditedCells, value \in Values, allowed \in BOOLEAN,
        tracking \in Trackings \ {"untracked"} :
       EditCell(cell, value, allowed, tracking)
  \/ \E targets \in PasteTargets, tracking \in Trackings :
       \/ \E outcomes \in [DOMAIN targets -> CellOutcomes] :
            PasteList(targets, PasteValue, outcomes, tracking)
       \/ Len(targets) > 1 /\ PasteText(targets, PasteValue, tracking)
  \/ PasteVetoed
  \/ \E given \in GivenHistories : SetUndoHistory(given)
  \/ \E given \in GivenHistories : SetRedoHistory(given)
  \/ \E outcomes \in OutcomeLists : Undo(outcomes)
  \/ \E outcomes \in OutcomeLists : Redo(outcomes)

SpecUndo ==
  InitUndo /\ [][NextUndo /\ UNCHANGED <<ctlVars, sortVars, cmpVars, navVars, attrVars,
                                         mungeVars, failVars>>]_vars

\* the operation was a paste, or the Undo / Redo of a paste
WasPasteWrite ==
  /\ undoCall.made
  /\ \/ undoCall.op = "Paste"
     \/ undoCall.op \in {"Undo", "Redo"} /\ undoCall.type = "UndoPaste"

\* C24: after a paste, or the Undo / Redo of a paste, no Resort was performed
\* while the cells were written, the ignore flag is false again, and if at least
\* one cell was written exactly one Resort was performed after the last write
C24_OneResortAfterPaste ==
  WasPasteWrite =>
    /\ undoCall.inLoop = 0
    /\ ~paste_ignoreSort
    /\ undoCall.written > 0 => undoCall.after = 1

\* C25: an Undo or Redo whose notifications were all vetoed changes no cell
\* value and leaves both histories as they were
C25_VetoedUndoChangesNothing ==
  [][(undoCall'.made /\ undoCall'.op \in {"Undo", "Redo"} /\ undoCall'.vetoed)
       => UNCHANGED <<cellValues, undoHistory, redoHistory>>]_vars

\* C29: the last UndoFirstEvent / UndoEmptyEvent says whether the undo history
\* holds an action, and the last RedoFirstEvent / RedoEmptyEvent says whether the
\* redo history does
C29_NotificationsAgree ==
  /\ (lastUndoEvent = "First") <=> (undoHistory # <<>>)
  /\ (lastRedoEvent = "First") <=> (redoHistory # <<>>)

\* C30: while the histories were built by tracking, Undo and Redo only, the undo
\* history never holds more than undoCap actions, and a step that tracks an
\* action empties the redo history and appends the action to the undo history
\* less its oldest action when it was full
C30_UndoHistoryCapped ==
  [][~historiesSet' =>
       /\ Len(undoHistory') <= undoCap
       /\ undoCall'.made /\ undoCall'.tracked =>
            /\ redoHistory' = <<>>
            /\ undoHistory' # <<>>
            /\ SubSeq(undoHistory', 1, Len(undoHistory') - 1) =
                 IF Len(undoHistory) >= undoCap THEN Tail(undoHistory)
                 ELSE undoHistory]_vars

\* an action was tracked when the undo history held undoCap = MaxCap actions:
\* the oldest was deleted
C30_TrackedWhenFull ==
  /\ ~historiesSet
  /\ undoCall.made
  /\ undoCall.discarded
  /\ undoCap = MaxCap
  /\ Len(undoHistory) = undoCap
  /\ redoHistory = <<>>

====
